---- MODULE Spec2Model ----
(***************************************************************************)
(* Model of nascTUI: the calculation sheet (Model), its event loop         *)
(* (Model.Update and the handlers it routes to), the asynchronous          *)
(* CalculateCmd tasks, the snapshot undo/redo engine, the threads that     *)
(* call into the libqalculate wrapper, and the CalculationManager.         *)
(*                                                                         *)
(* Texts are sequences of one-character strings.  Indices are 0-based as   *)
(* in the Go source; At(s, i) reads s[i].                                  *)
(***************************************************************************)
EXTENDS Integers, Sequences, FiniteSets, Bags, TLC

VARIABLES
    Inputs,       \* Model.Inputs: per line [value, pos] of the textinput
    Results,      \* Model.Results[0..len-1]
    ResultsTail,  \* backing array of Model.Results beyond len, up to cap
    Calculating,  \* Model.Calculating
    Focused,      \* Model.Focused
    undoStack,    \* UndoSystem.undoStack
    redoStack,    \* UndoSystem.redoStack
    tasks,        \* the CalculateCmd goroutines: closure, position, result
    lastOp,       \* the message Update handled last
    steps,        \* number of user inputs handled so far
    calculator_mutex,        \* the thread that holds the mutex, 0 for none
    calculator_initialized,  \* the flag of initialize_calculator
    callers,      \* the threads that call the wrapper: position, call, calls made
    cm,           \* the CalculationManager and the contexts it has created
    evals         \* the evaluations started through the CalculationManager

sheetVars == <<Inputs, Results, ResultsTail, Calculating, Focused,
               undoStack, redoStack, tasks, lastOp, steps>>

oracleVars == <<calculator_mutex, calculator_initialized, callers>>

managerVars == <<cm, evals>>

vars == <<Inputs, Results, ResultsTail, Calculating, Focused,
          undoStack, redoStack, tasks, lastOp, steps,
          calculator_mutex, calculator_initialized, callers, cm, evals>>

----------------------------------------------------------------------------
(* Bounds of the model *)

MaxLines == 3
MaxLen == 4
MaxTasks == 2
MaxSteps == 3
CapLines == 53
MaxCallers == 3
MaxCalls == 2
ManagerLines == 2
MaxEvals == 2

(* Program constants *)

maxSize == 50

----------------------------------------------------------------------------
(* Sequences and strings *)

At(s, i) == s[i + 1]

Slice(s, lo, hi) == SubSeq(s, lo + 1, hi)

SetAt(s, i, v) == [s EXCEPT ![i + 1] = v]

RemoveAt(s, i) == Slice(s, 0, i) \o Slice(s, i + 1, Len(s))

InsertAt(s, i, v) == Slice(s, 0, i) \o <<v>> \o Slice(s, i, Len(s))

Min(a, b) == IF a < b THEN a ELSE b

Max(a, b) == IF a > b THEN a ELSE b

HasPrefixAt(s, i, p) ==
    /\ i + Len(p) <= Len(s)
    /\ \A k \in 1..Len(p) : s[i + k] = p[k]

HasPrefix(s, p) == HasPrefixAt(s, 0, p)

Contains(s, p) == \E i \in 0..Len(s) : HasPrefixAt(s, i, p)

Index(s, p) ==
    IF Contains(s, p)
    THEN CHOOSE i \in 0..Len(s) :
            /\ HasPrefixAt(s, i, p)
            /\ \A j \in 0..(i - 1) : ~HasPrefixAt(s, j, p)
    ELSE -1

RECURSIVE ReplaceFrom(_, _, _, _)
ReplaceFrom(s, i, old, new) ==
    IF i >= Len(s) THEN <<>>
    ELSE IF HasPrefixAt(s, i, old)
         THEN new \o ReplaceFrom(s, i + Len(old), old, new)
         ELSE <<s[i + 1]>> \o ReplaceFrom(s, i + 1, old, new)

ReplaceAll(s, old, new) == ReplaceFrom(s, 0, old, new)

Digits == <<"0", "1", "2", "3", "4", "5", "6", "7", "8", "9">>

IsDigit(c) == \E d \in 1..10 : Digits[d] = c

DigitVal(c) == (CHOOSE d \in 1..10 : Digits[d] = c) - 1

LowerLetters == <<"a", "b", "c", "d", "e", "f", "g", "h", "i", "j", "k", "l",
                  "m", "n", "o", "p", "q", "r", "s", "t", "u", "v", "w", "x",
                  "y", "z">>

UpperLetters == <<"A", "B", "C", "D", "E", "F", "G", "H", "I", "J", "K", "L",
                  "M", "N", "O", "P", "Q", "R", "S", "T", "U", "V", "W", "X",
                  "Y", "Z">>

IsLetter(c) == \E k \in 1..26 : LowerLetters[k] = c \/ UpperLetters[k] = c

IsWordChar(c) == IsDigit(c) \/ IsLetter(c) \/ c = "_"

LowerChar(c) ==
    IF \E k \in 1..26 : UpperLetters[k] = c
    THEN LowerLetters[CHOOSE k \in 1..26 : UpperLetters[k] = c]
    ELSE c

ToLower(s) == [k \in 1..Len(s) |-> LowerChar(s[k])]

TrimLeft(s) ==
    IF \A k \in 1..Len(s) : s[k] = " " THEN <<>>
    ELSE SubSeq(s, CHOOSE k \in 1..Len(s) :
                      s[k] # " " /\ \A j \in 1..(k - 1) : s[j] = " ", Len(s))

TrimRight(s) ==
    IF \A k \in 1..Len(s) : s[k] = " " THEN <<>>
    ELSE SubSeq(s, 1, CHOOSE k \in 1..Len(s) :
                      s[k] # " " /\ \A j \in (k + 1)..Len(s) : s[j] = " ")

TrimSpace(s) == TrimRight(TrimLeft(s))

RECURSIVE FormatNat(_)
FormatNat(n) ==
    IF n < 10 THEN <<Digits[n + 1]>>
    ELSE FormatNat(n \div 10) \o <<Digits[(n % 10) + 1]>>

AnsToken == <<"a", "n", "s">>

AnsN(n) == AnsToken \o FormatNat(n)

----------------------------------------------------------------------------
(* The calculator: classifier, reference resolution, oracle *)

operators == {<<"+">>, <<"-">>, <<"*">>, <<"/">>, <<"=">>, <<"(">>, <<")">>}

MinVariableNameLength == 3

ErrorCalculationFailed == <<"f", "a", "i", "l", "e", "d">>

\* The symbol lists libqalculate reports (getLibqalculateCompletions); the
\* second list holds the functions of the advanced categories and every
\* variable.
basicFunctions == {<<"s", "i", "n">>}

advancedFunctionNames == {<<"a", "r", "e", "a">>}

variableNames == {<<"p", "i">>, <<"t", "r", "u", "e">>}

advancedFunctions == advancedFunctionNames \cup variableNames

CheckForCalculation(input) ==
    IF input = <<>> \/ ReplaceAll(input, <<" ">>, <<>>) = <<>> THEN FALSE
    ELSE IF Contains(input, <<"h", "t", "t", "p", ":", "/", "/">>) THEN FALSE
    ELSE IF \E k \in 1..Len(input) : IsDigit(input[k]) THEN TRUE
    ELSE IF input = <<"t", "u", "t", "o", "r", "i", "a", "l", "(", ")">> THEN FALSE
    ELSE IF \E op \in operators : Contains(input, op) THEN TRUE
    ELSE IF \E fct \in basicFunctions \cup advancedFunctions :
                Contains(input, fct \o <<"(">>) THEN TRUE
    ELSE IF \E variable \in advancedFunctions :
                Len(variable) > MinVariableNameLength /\ Contains(input, variable)
         THEN TRUE
    ELSE IF HasPrefix(input, AnsToken) THEN TRUE
    ELSE FALSE

prepareString(input) ==
    LET commentPos == Index(input, <<"/", "/">>)
        r0 == IF commentPos # -1 THEN Slice(input, 0, commentPos) ELSE input
        r1 == ReplaceAll(r0, <<"€">>, <<"E", "U", "R">>)
        r2 == ReplaceAll(r1, <<"$">>, <<"U", "S", "D">>)
        r3 == ReplaceAll(r2, <<"£">>, <<"G", "B", "P">>)
    IN  ReplaceAll(r3, <<"¥">>, <<"J", "P", "Y">>)

postString(output) ==
    LET r1 == ReplaceAll(output, <<"E", "U", "R">>, <<"€">>)
        r2 == ReplaceAll(r1, <<"U", "S", "D">>, <<"$">>)
        r3 == ReplaceAll(r2, <<"G", "B", "P">>, <<"£">>)
        r4 == ReplaceAll(r3, <<"J", "P", "Y">>, <<"¥">>)
    IN  ReplaceAll(r4, <<" ", "°">>, <<"°">>)

\* a match of "ans" wherever the three letters stand
AnsMatchAt_Substring(s, i) == HasPrefixAt(s, i, AnsToken)

\* regexp `\bans\b`: a match at i needs a non-word character (or the text's
\* edge) on both sides.
AnsMatchAt(s, i) ==
    /\ HasPrefixAt(s, i, AnsToken)
    /\ (i = 0 \/ ~IsWordChar(s[i]))
    /\ (i + 3 = Len(s) \/ ~IsWordChar(s[i + 4]))

AnsRegexMatch(s) == \E i \in 0..Len(s) : AnsMatchAt(s, i)

RECURSIVE AnsReplaceFrom(_, _, _)
AnsReplaceFrom(s, i, new) ==
    IF i >= Len(s) THEN <<>>
    ELSE IF AnsMatchAt(s, i)
         THEN new \o AnsReplaceFrom(s, i + 3, new)
         ELSE <<s[i + 1]>> \o AnsReplaceFrom(s, i + 1, new)

AnsRegexReplaceAll(s, new) == AnsReplaceFrom(s, 0, new)

\* the loop of CalculateExpression over i = 0 .. min(currentIndex, len(results)) - 1
RECURSIVE ReplaceNumbered(_, _, _, _)
ReplaceNumbered(e, results, i, n) ==
    IF i >= n THEN e
    ELSE ReplaceNumbered(
            ReplaceAll(e, AnsN(i + 1),
                       IF At(results, i) # <<>> THEN At(results, i) ELSE <<"0">>),
            results, i + 1, n)

\* the downward scan for the nearest non-empty result below currentIndex; -1
\* when there is none
RECURSIVE LastNonEmpty(_, _)
LastNonEmpty(results, i) ==
    IF i < 0 THEN -1
    ELSE IF At(results, i) # <<>> THEN i
    ELSE LastNonEmpty(results, i - 1)

\* the name after a "$" in a replacement template: the longest run of word
\* characters from position i
RECURSIVE TemplateName(_, _)
TemplateName(t, i) ==
    IF i < Len(t) /\ IsWordChar(t[i + 1])
    THEN <<t[i + 1]>> \o TemplateName(t, i + 1)
    ELSE <<>>

\* regexp.Expand for `\bans\b`, which has no group but the whole match: "$$"
\* is a dollar sign, "$0" the match, any other "$name" nothing, and a "$"
\* with no name after it stays
RECURSIVE ExpandFrom(_, _)
ExpandFrom(t, i) ==
    IF i >= Len(t) THEN <<>>
    ELSE IF t[i + 1] # "$" THEN <<t[i + 1]>> \o ExpandFrom(t, i + 1)
    ELSE IF HasPrefixAt(t, i + 1, <<"$">>) THEN <<"$">> \o ExpandFrom(t, i + 2)
    ELSE LET name == TemplateName(t, i + 1)
         IN  IF name = <<>> THEN <<"$">> \o ExpandFrom(t, i + 1)
             ELSE (IF name = <<"0">> THEN AnsToken ELSE <<>>)
                  \o ExpandFrom(t, i + 1 + Len(name))

ExpandTemplate(t) == ExpandFrom(t, 0)

ResolveReferences(expr, results, currentIndex) ==
    LET numbered == ReplaceNumbered(prepareString(expr), results, 0,
                                    Min(currentIndex, Len(results)))
        j == LastNonEmpty(results, currentIndex - 1)
    IN  IF AnsRegexMatch(numbered)
        THEN AnsRegexReplaceAll(numbered,
                 ExpandTemplate(IF j >= 0 THEN At(results, j) ELSE <<"0">>))
        ELSE numbered

\* libqalculate, reduced to sums of decimal numbers; anything else is
\* answered with its error text.
RECURSIVE ParseNat(_, _)
ParseNat(s, acc) ==
    IF s = <<>> THEN acc ELSE ParseNat(Tail(s), 10 * acc + DigitVal(Head(s)))

IsNumber(s) == s # <<>> /\ \A k \in 1..Len(s) : IsDigit(s[k])

RECURSIVE SumValue(_)
SumValue(s) ==
    LET p == Index(s, <<"+">>)
    IN  IF p = -1
        THEN IF IsNumber(s) THEN ParseNat(s, 0) ELSE -1
        ELSE LET l == Slice(s, 0, p)
                 r == SumValue(Slice(s, p + 1, Len(s)))
             IN  IF IsNumber(l) /\ r >= 0 THEN ParseNat(l, 0) + r ELSE -1

OracleError == <<"e", "r", "r", "o", "r">>

calculate_expression(expression) ==
    LET v == SumValue(ReplaceAll(expression, <<" ">>, <<>>))
    IN  IF v >= 0 THEN FormatNat(v) ELSE OracleError

IsOracleError(r) ==
    \/ Contains(ToLower(r), <<"e", "r", "r", "o", "r">>)
    \/ Contains(ToLower(r), <<"u", "n", "d", "e", "f", "i", "n", "e", "d">>)
    \/ Contains(ToLower(r), <<"i", "n", "v", "a", "l", "i", "d">>)

CalculateExpression(expr, results, currentIndex) ==
    IF expr = <<>> THEN <<>>
    ELSE LET trimmedExpr == TrimSpace(ToLower(expr))
         IN  IF trimmedExpr = <<"0", "/", "0">> THEN <<"s", "h", "r", "u", "g">>
             ELSE IF trimmedExpr = <<"i", "n", "f", "i", "n", "i", "t", "y">>
                     \/ trimmedExpr = <<"i", "n", "f">> THEN <<"v", "o", "i", "d">>
             ELSE IF ~CheckForCalculation(expr) THEN <<>>
             ELSE LET rawResult ==
                          calculate_expression(
                              ResolveReferences(expr, results, currentIndex))
                      trimmedResult == TrimSpace(rawResult)
                  IN  IF IsOracleError(trimmedResult) THEN trimmedResult
                      ELSE postString(trimmedResult)

----------------------------------------------------------------------------
(* The sheet.  S is the Model value a handler works on: the fields of the   *)
(* Model, the undo system it points to, and the CalculateCmd closures that  *)
(* still hold Model.Results.                                                *)

M == [Inputs |-> Inputs, Results |-> Results, ResultsTail |-> ResultsTail,
      Calculating |-> Calculating, Focused |-> Focused,
      undoStack |-> undoStack, redoStack |-> redoStack, tasks |-> tasks]

\* textinput.Model: the text and the cursor
NewInput == [value |-> <<>>, pos |-> 0]

SetCursor(ti, p) == [ti EXCEPT !.pos = Max(0, Min(p, Len(ti.value)))]

SetValue(ti, v) ==
    [value |-> v,
     pos |-> IF (ti.pos = 0 /\ ti.value = <<>>) \/ ti.pos > Len(v)
             THEN Len(v) ELSE ti.pos]

Value(S, i) == At(S.Inputs, i).value

Position(S, i) == At(S.Inputs, i).pos

\* The backing array of Model.Results, and what a dispatched closure reads
\* through the slice it captured.
Backing(S) == S.Results \o S.ResultsTail

TaskView(S, t) == IF t.live THEN SubSeq(Backing(S), 1, t.len) ELSE t.results

\* Model.Results gets a new backing array: the closures keep the old one,
\* which nothing writes any more.
Detach(S) ==
    [k \in 1..Len(S.tasks) |->
        IF S.tasks[k].live
        THEN [S.tasks[k] EXCEPT !.live = FALSE, !.results = TaskView(S, S.tasks[k])]
        ELSE S.tasks[k]]

CalculateCmd(S, expr, index) ==
    [S EXCEPT !.tasks = Append(@, [Index |-> index, expr |-> expr,
                                   len |-> Len(S.Results), live |-> TRUE,
                                   results |-> <<>>, pc |-> "run",
                                   Result |-> <<>>])]

\* runtime.growslice for a []string (16-byte elements, fewer than 256 of
\* them): the capacity doubles, or becomes the needed length if that is more,
\* and is rounded up to the allocator's size class.
SizeClasses == <<16, 32, 48, 64, 80, 96, 112, 128, 144, 160, 176, 192, 208,
                 224, 240, 256, 288, 320, 352, 384, 416, 448, 480, 512, 576,
                 640, 704, 768, 896, 1024, 1152, 1280, 1408, 1536, 1792, 2048>>

RoundUpSize(bytes) ==
    SizeClasses[CHOOSE k \in 1..Len(SizeClasses) :
                    /\ SizeClasses[k] >= bytes
                    /\ \A j \in 1..(k - 1) : SizeClasses[j] < bytes]

GrowCap(oldCap, newLen) ==
    LET newcap == IF newLen > 2 * oldCap THEN newLen ELSE 2 * oldCap
    IN  RoundUpSize(16 * newcap) \div 16

----------------------------------------------------------------------------
(* Undo/redo engine *)

\* a snapshot that forgets the cursor
createSnapshot_CursorAtStart(S) ==
    [InputValues |-> [k \in 1..Len(S.Inputs) |-> S.Inputs[k].value],
     Results |-> S.Results,
     Focused |-> S.Focused,
     CursorPos |-> 0]

createSnapshot(S) ==
    [InputValues |-> [k \in 1..Len(S.Inputs) |-> S.Inputs[k].value],
     Results |-> S.Results,
     Focused |-> S.Focused,
     CursorPos |-> IF S.Focused >= 0 /\ S.Focused < Len(S.Inputs)
                   THEN Position(S, S.Focused) ELSE 0]

\* a stack that never drops a snapshot
Push_Unbounded(stack, snapshot) == Append(stack, snapshot)

\* a full stack that refuses the newest snapshot
Push_DropNewest(stack, snapshot) ==
    LET st == Append(stack, snapshot)
    IN  IF Len(st) > maxSize THEN SubSeq(st, 1, maxSize) ELSE st

Push(stack, snapshot) ==
    LET st == Append(stack, snapshot)
    IN  IF Len(st) > maxSize THEN Tail(st) ELSE st

\* a saveState that leaves the redo stack alone
saveState_KeepsRedo(S) ==
    [S EXCEPT !.undoStack = Push(S.undoStack, createSnapshot(S))]

saveState(S) ==
    [S EXCEPT !.undoStack = Push(S.undoStack, createSnapshot(S)),
              !.redoStack = <<>>]

RestoredInput(state, i) ==
    LET value == At(state.InputValues, i)
        ti == SetValue(NewInput, value)
    IN  IF i = state.Focused
        THEN IF state.CursorPos <= Len(value)
             THEN SetCursor(ti, state.CursorPos)
             ELSE SetCursor(ti, Len(value))
        ELSE ti

RestoredFocus(state) ==
    LET n == Len(state.InputValues)
        f == IF state.Focused >= n THEN n - 1 ELSE state.Focused
    IN  IF f < 0 THEN 0 ELSE f

\* a restore that keeps the flags of the lines that are still there
restoreState_KeepsFlags(S, state) ==
    [S EXCEPT !.Inputs = [k \in 1..Len(state.InputValues) |->
                              RestoredInput(state, k - 1)],
              !.Results = state.Results,
              !.ResultsTail = <<>>,
              !.tasks = Detach(S),
              !.Calculating = [k \in 1..Len(state.InputValues) |->
                                  k <= Len(S.Calculating) /\ S.Calculating[k]],
              !.Focused = RestoredFocus(state)]

restoreState(S, state) ==
    [S EXCEPT !.Inputs = [k \in 1..Len(state.InputValues) |->
                              RestoredInput(state, k - 1)],
              !.Results = state.Results,
              !.ResultsTail = <<>>,
              !.tasks = Detach(S),
              !.Calculating = [k \in 1..Len(state.InputValues) |-> FALSE],
              !.Focused = RestoredFocus(state)]

canUndo(S) == Len(S.undoStack) > 0

canRedo(S) == Len(S.redoStack) > 0

\* an undo that puts the popped snapshot, not the current sheet, on redo
undo_PushesPopped(S) ==
    IF Len(S.undoStack) = 0 THEN [ok |-> FALSE, m |-> S]
    ELSE LET lastIndex == Len(S.undoStack) - 1
             state == At(S.undoStack, lastIndex)
             S1 == [S EXCEPT !.redoStack = Push(S.redoStack, state),
                             !.undoStack = Slice(S.undoStack, 0, lastIndex)]
         IN  [ok |-> TRUE, m |-> restoreState(S1, state)]

\* an undo that saves the current sheet before it looks at the stack
undo_PushesFirst(S) ==
    LET S0 == [S EXCEPT !.redoStack = Push(S.redoStack, createSnapshot(S))]
    IN  IF Len(S.undoStack) = 0 THEN [ok |-> FALSE, m |-> S0]
        ELSE LET lastIndex == Len(S.undoStack) - 1
                 state == At(S.undoStack, lastIndex)
             IN  [ok |-> TRUE,
                  m |-> restoreState(
                            [S0 EXCEPT !.undoStack = Slice(S.undoStack, 0, lastIndex)],
                            state)]

\* an undo that takes the oldest snapshot
undo_Oldest(S) ==
    IF Len(S.undoStack) = 0 THEN [ok |-> FALSE, m |-> S]
    ELSE LET state == At(S.undoStack, 0)
             S1 == [S EXCEPT !.redoStack = Push(S.redoStack, createSnapshot(S)),
                             !.undoStack = Tail(S.undoStack)]
         IN  [ok |-> TRUE, m |-> restoreState(S1, state)]

\* undo and redo give back their boolean (ok) and the Model they leave (m)
undo(S) ==
    IF Len(S.undoStack) = 0 THEN [ok |-> FALSE, m |-> S]
    ELSE LET lastIndex == Len(S.undoStack) - 1
             state == At(S.undoStack, lastIndex)
             S1 == [S EXCEPT !.redoStack = Push(S.redoStack, createSnapshot(S)),
                             !.undoStack = Slice(S.undoStack, 0, lastIndex)]
         IN  [ok |-> TRUE, m |-> restoreState(S1, state)]

redo(S) ==
    IF Len(S.redoStack) = 0 THEN [ok |-> FALSE, m |-> S]
    ELSE LET lastIndex == Len(S.redoStack) - 1
             state == At(S.redoStack, lastIndex)
             S1 == [S EXCEPT !.undoStack = Push(S.undoStack, createSnapshot(S)),
                             !.redoStack = Slice(S.redoStack, 0, lastIndex)]
         IN  [ok |-> TRUE, m |-> restoreState(S1, state)]

----------------------------------------------------------------------------
(* Handlers of the event loop *)

\* one statement after another: F applied to the value of v
Then(v, F(_)) == CHOOSE r \in {F(x) : x \in {v}} : TRUE

Blanks(n) == [k \in 1..n |-> <<>>]

\* append(m.Results[:i], rest...): in place while the capacity lasts, else
\* on a grown copy that the dispatched closures do not see.
AppendResults(S, i, rest) ==
    LET cap == Len(Backing(S))
        newLen == i + Len(rest)
        new == Slice(S.Results, 0, i) \o rest
    IN  IF newLen <= cap
        THEN [S EXCEPT !.Results = new,
                       !.ResultsTail = Slice(Backing(S), newLen, cap)]
        ELSE [S EXCEPT !.Results = new,
                       !.ResultsTail = Blanks(GrowCap(cap, newLen) - newLen),
                       !.tasks = Detach(S)]

\* Update, lines 68-77, and triggerCalculationIfNeeded
triggerCalculationIfNeeded(S) ==
    LET currentExpr == Value(S, S.Focused)
    IN  IF ~At(S.Calculating, S.Focused) /\ currentExpr # <<>>
        THEN CalculateCmd([S EXCEPT !.Calculating = SetAt(@, S.Focused, TRUE)],
                          currentExpr, S.Focused)
        ELSE IF currentExpr = <<>>
             THEN [S EXCEPT !.Results = SetAt(@, S.Focused, <<>>)]
             ELSE S

\* the same without the branch that clears the result (insertSymbol,
\* handlePasteMessage, handleMouseMessage)
TriggerIfIdle(S) ==
    LET currentExpr == Value(S, S.Focused)
    IN  IF ~At(S.Calculating, S.Focused) /\ currentExpr # <<>>
        THEN CalculateCmd([S EXCEPT !.Calculating = SetAt(@, S.Focused, TRUE)],
                          currentExpr, S.Focused)
        ELSE S

\* Update, lines 62-78: the focused textinput handles the message (ti is what
\* it becomes), then the focused line is submitted
UpdateFocusedInput(S, ti) ==
    triggerCalculationIfNeeded([S EXCEPT !.Inputs = SetAt(@, S.Focused, ti)])

\* textinput.Update on a key
InsertRunes(ti, runes) ==
    [value |-> Slice(ti.value, 0, ti.pos) \o runes
                  \o Slice(ti.value, ti.pos, Len(ti.value)),
     pos |-> ti.pos + Len(runes)]

DeleteCharacterBackward(ti) ==
    IF ti.pos > 0
    THEN [value |-> RemoveAt(ti.value, ti.pos - 1), pos |-> ti.pos - 1]
    ELSE ti

CharacterBackward(ti) == [ti EXCEPT !.pos = Max(0, ti.pos - 1)]

LineStart(ti) == [ti EXCEPT !.pos = 0]

InsertAtCursor(S, text) ==
    LET ti == At(S.Inputs, S.Focused)
        newValue == Slice(ti.value, 0, ti.pos) \o text
                        \o Slice(ti.value, ti.pos, Len(ti.value))
    IN  [S EXCEPT !.Inputs = SetAt(@, S.Focused,
                      SetCursor(SetValue(ti, newValue), ti.pos + Len(text)))]

\* an insertSymbol that snapshots after it has inserted
insertSymbol_SavesAfter(S, symbol) ==
    TriggerIfIdle(saveState(InsertAtCursor(S, symbol)))

insertSymbol(S, symbol) == TriggerIfIdle(InsertAtCursor(saveState(S), symbol))

\* start of the word the cursor is in
RECURSIVE WordStart(_, _)
WordStart(value, pos) ==
    IF pos > 0 /\ value[pos] # " " /\ <<value[pos]>> \notin operators
    THEN WordStart(value, pos - 1)
    ELSE pos

insertCompletion(S, completion) ==
    LET S1 == saveState(S)
        ti == At(S1.Inputs, S1.Focused)
        wordStart == WordStart(ti.value, ti.pos)
        newValue == Slice(ti.value, 0, wordStart) \o completion
                        \o Slice(ti.value, ti.pos, Len(ti.value))
    IN  [S1 EXCEPT !.Inputs = SetAt(@, S1.Focused,
                       SetCursor(SetValue(ti, newValue),
                                 wordStart + Len(completion)))]

\* a message with exactly one completion: it is inserted at once
handleOpenCompletionsMessage(S, completion) ==
    triggerCalculationIfNeeded(insertCompletion(S, completion))

\* a deleteLine that leaves the focus where it was
deleteLine_KeepsFocus(S) ==
    LET S1 == saveState(S)
        f == S1.Focused
        n == Len(S1.Inputs)
    IN  IF n > 1
        THEN [S1 EXCEPT !.Inputs = RemoveAt(@, f),
                        !.Results = RemoveAt(@, f),
                        !.ResultsTail = <<At(S1.Results, n - 1)>> \o @,
                        !.Calculating = RemoveAt(@, f)]
        ELSE [S1 EXCEPT !.Inputs = SetAt(@, f,
                            SetCursor(SetValue(At(S1.Inputs, f), <<>>), 0)),
                        !.Results = SetAt(@, f, <<>>)]

deleteLine(S) ==
    LET S1 == saveState(S)
        f == S1.Focused
        n == Len(S1.Inputs)
    IN  IF n > 1
        THEN [S1 EXCEPT !.Inputs = RemoveAt(@, f),
                        !.Results = RemoveAt(@, f),
                        !.ResultsTail = <<At(S1.Results, n - 1)>> \o @,
                        !.Calculating = RemoveAt(@, f),
                        !.Focused = IF f >= n - 1 THEN n - 2 ELSE f]
        ELSE [S1 EXCEPT !.Inputs = SetAt(@, f,
                            SetCursor(SetValue(At(S1.Inputs, f), <<>>), 0)),
                        !.Results = SetAt(@, f, <<>>)]

clearAll(S) ==
    LET S1 == saveState(S)
    IN  [S1 EXCEPT !.Inputs = <<NewInput>>,
                   !.Results = <<<<>>>>,
                   !.ResultsTail = <<>>,
                   !.tasks = Detach(S1),
                   !.Calculating = <<FALSE>>,
                   !.Focused = 0]

createNewLine(S) ==
    LET S1 == saveState(S)
        insertIndex == S1.Focused + 1
        S2 == AppendResults(S1, insertIndex,
                  <<<<>>>> \o Slice(S1.Results, insertIndex, Len(S1.Results)))
    IN  [S2 EXCEPT !.Inputs = InsertAt(@, insertIndex, NewInput),
                   !.Calculating = InsertAt(@, insertIndex, FALSE),
                   !.Focused = insertIndex]

focusPreviousLine(S) ==
    IF S.Focused > 0 THEN [S EXCEPT !.Focused = @ - 1] ELSE S

focusNextLine(S) ==
    IF S.Focused < Len(S.Inputs) - 1 THEN [S EXCEPT !.Focused = @ + 1] ELSE S

focusFirstLine(S) == IF S.Focused # 0 THEN [S EXCEPT !.Focused = 0] ELSE S

focusLastLine(S) ==
    IF S.Focused # Len(S.Inputs) - 1
    THEN [S EXCEPT !.Focused = Len(S.Inputs) - 1] ELSE S

\* strconv.Atoi: an optional sign and decimal digits, anything else an error
Atoi(s) ==
    LET signed == s # <<>> /\ Head(s) \in {"+", "-"}
        digits == IF signed THEN Tail(s) ELSE s
    IN  IF IsNumber(digits)
        THEN [err |-> FALSE,
              n |-> IF Head(s) = "-" THEN 0 - ParseNat(digits, 0)
                    ELSE ParseNat(digits, 0)]
        ELSE [err |-> TRUE, n |-> 0]

\* Enter in the go-to-line dialog, whose input holds the text value
goToLine(S, value) ==
    LET lineInput == TrimSpace(value)
        lineNumber == Atoi(lineInput)
    IN  IF lineInput = <<>> THEN S
        ELSE IF lineNumber.err \/ lineNumber.n < 1 THEN S
        ELSE [S EXCEPT !.Focused = IF lineNumber.n - 1 >= Len(S.Inputs)
                                   THEN Len(S.Inputs) - 1
                                   ELSE lineNumber.n - 1]

\* A pasted content is its lines (the text between the newlines); the content
\* has a newline when it has more than one line.
NonBlankLines(content) ==
    SelectSeq([k \in 1..Len(content) |-> TrimSpace(content[k])],
              LAMBDA l : l # <<>>)

\* the loop of addMultipleInputs: each line is appended and evaluated at once
AppendLine(S, line) ==
    Then(AppendResults(S, Len(S.Results), <<<<>>>>), LAMBDA S1 :
        LET index == Len(S1.Results) - 1
        IN  [S1 EXCEPT
               !.Inputs = Append(@, [value |-> line, pos |-> Len(line)]),
               !.Calculating = Append(@, FALSE),
               !.Results = SetAt(@, index,
                   CalculateExpression(line, S1.Results, index))])

RECURSIVE AppendLines(_, _)
AppendLines(S, lines) ==
    IF lines = <<>> THEN S
    ELSE Then(AppendLine(S, Head(lines)), LAMBDA S2 :
              AppendLines(S2, Tail(lines)))

addMultipleInputs(S, content) ==
    IF content = <<<<>>>> THEN S
    ELSE Then(AppendLines(saveState(S), NonBlankLines(content)), LAMBDA S1 :
        LET last == Len(S1.Inputs) - 1
        IN  [S1 EXCEPT !.Focused = last,
                       !.Inputs = SetAt(@, last,
                           SetCursor(At(S1.Inputs, last), Len(Value(S1, last))))])

\* input.txt, the embedded template
inputTemplate == << <<"1">>, AnsToken >>

pasteInputTemplate(S) ==
    Then(saveState(S), LAMBDA S1 : addMultipleInputs(S1, inputTemplate))

handlePasteMessage(S, content) ==
    IF Len(content) > 1 THEN addMultipleInputs(S, content)
    ELSE IF content # <<<<>>>> THEN TriggerIfIdle(InsertAtCursor(S, content[1]))
    ELSE S

\* what the textinput's sanitizer makes of the pasted runes: one line, the
\* newlines turned into spaces
RECURSIVE JoinLines(_)
JoinLines(content) ==
    IF Len(content) = 1 THEN content[1]
    ELSE content[1] \o <<" ">> \o JoinLines(Tail(content))

\* Update on a KeyMsg with Paste set.  A multi-line paste comes back from
\* handleBracketedPaste with an empty batch, so Update goes on and the
\* focused textinput handles the very same message; a single-line paste comes
\* back with a command and Update returns at once.
handleBracketedPaste(S, content) ==
    IF Len(content) > 1
    THEN Then(addMultipleInputs(S, content), LAMBDA S1 :
             UpdateFocusedInput(S1,
                 InsertRunes(At(S1.Inputs, S1.Focused), JoinLines(content))))
    ELSE S

\* handleMouseMessage, a left click on the result of clickedLine
handleMouseMessage(S, clickedLine) ==
    IF clickedLine >= 0 /\ clickedLine < Len(S.Results)
       /\ At(S.Results, clickedLine) # <<>>
    THEN TriggerIfIdle(InsertAtCursor(saveState(S), AnsN(clickedLine + 1)))
    ELSE S

\* a walk that also submits the first line of the sheet again
RECURSIVE Cascade_FromTop(_, _)
Cascade_FromTop(S, i) ==
    IF i >= Len(S.Inputs) THEN S
    ELSE Then(IF Value(S, 0) # <<>> /\ ~At(S.Calculating, 0)
              THEN CalculateCmd([S EXCEPT !.Calculating = SetAt(@, 0, TRUE)],
                                Value(S, 0), 0)
              ELSE S,
              LAMBDA S1 :
                  IF Value(S1, i) # <<>> /\ ~At(S1.Calculating, i)
                  THEN Cascade_FromTop(
                           CalculateCmd([S1 EXCEPT !.Calculating = SetAt(@, i, TRUE)],
                                        Value(S1, i), i), i + 1)
                  ELSE Cascade_FromTop(S1, i + 1))

RECURSIVE Cascade(_, _)
Cascade(S, i) ==
    IF i >= Len(S.Inputs) THEN S
    ELSE IF Value(S, i) # <<>> /\ ~At(S.Calculating, i)
         THEN Cascade(CalculateCmd([S EXCEPT !.Calculating = SetAt(@, i, TRUE)],
                                   Value(S, i), i), i + 1)
         ELSE Cascade(S, i + 1)

\* a completion that also submits its own line again
handleCalculationMessage_FromSelf(S, msg) ==
    IF msg.Index >= 0 /\ msg.Index < Len(S.Results)
    THEN Cascade([S EXCEPT !.Results = SetAt(@, msg.Index, msg.Result),
                           !.Calculating = SetAt(@, msg.Index, FALSE)],
                 msg.Index)
    ELSE S

\* a completion whose write also lands in the newest snapshot, as it would
\* if the snapshot shared the array of Model.Results
handleCalculationMessage_WritesSnapshot(S, msg) ==
    IF msg.Index >= 0 /\ msg.Index < Len(S.Results)
    THEN Cascade([S EXCEPT !.Results = SetAt(@, msg.Index, msg.Result),
                           !.Calculating = SetAt(@, msg.Index, FALSE),
                           !.undoStack =
                               IF S.undoStack # <<>>
                                  /\ msg.Index < Len(S.undoStack[Len(S.undoStack)].Results)
                               THEN [@ EXCEPT ![Len(S.undoStack)].Results =
                                                  SetAt(@, msg.Index, msg.Result)]
                               ELSE @],
                 msg.Index + 1)
    ELSE S

handleCalculationMessage(S, msg) ==
    IF msg.Index >= 0 /\ msg.Index < Len(S.Results)
    THEN Cascade([S EXCEPT !.Results = SetAt(@, msg.Index, msg.Result),
                           !.Calculating = SetAt(@, msg.Index, FALSE)],
                 msg.Index + 1)
    ELSE S

----------------------------------------------------------------------------
(* The libqalculate wrapper.  Every exported function but                  *)
(* abort_calculation first runs initialize_calculator, which takes         *)
(* calculator_mutex for itself, and then takes the mutex again for its own *)
(* body; abort_calculation takes the mutex for its body at once.           *)

\* the goroutine of main that refreshes the exchange rates, and the
\* goroutines of the dispatched evaluations
Callers == 1..MaxCallers

RefreshCaller == 1

\* the exported functions a caller runs: the refresh goroutine calls
\* UpdateExchangeRates; an evaluation classifies its text, which enumerates
\* the symbols, and evaluates it; a StartCalculation that replaces an
\* evaluation calls abort_calculation
CallsOf(t) ==
    IF t = RefreshCaller THEN {"update_exchange_rates_if_needed"}
    ELSE {"get_function_count", "calculate_expression", "abort_calculation"}

\* a lock that takes the mutex whoever holds it
MutexFree_Unchecked(mutex) == TRUE

\* std::lock_guard blocks while another thread holds the mutex
MutexFree(mutex) == mutex = 0

\* the caller t enters an exported function
Call(t, f) ==
    /\ callers[t].pc = "idle"
    /\ callers[t].made < MaxCalls
    /\ callers' = [callers EXCEPT ![t] =
           [@ EXCEPT !.pc = IF f = "abort_calculation" THEN "lock" ELSE "init_lock",
                     !.call = f]]
    /\ UNCHANGED <<calculator_mutex, calculator_initialized>>

\* initialize_calculator: the lock_guard is constructed
InitLock(t) ==
    /\ callers[t].pc = "init_lock"
    /\ MutexFree(calculator_mutex)
    /\ calculator_mutex' = t
    /\ callers' = [callers EXCEPT ![t] = [@ EXCEPT !.pc = "init_body"]]
    /\ UNCHANGED calculator_initialized

\* initialize_calculator: returns at once if the calculator is there, else
\* creates and loads it; the lock_guard is destroyed on return
InitBody(t) ==
    /\ callers[t].pc = "init_body"
    /\ calculator_initialized' = TRUE
    /\ calculator_mutex' = 0
    /\ callers' = [callers EXCEPT ![t] = [@ EXCEPT !.pc = "lock"]]

\* the exported function: the lock_guard is constructed
BodyLock(t) ==
    /\ callers[t].pc = "lock"
    /\ MutexFree(calculator_mutex)
    /\ calculator_mutex' = t
    /\ callers' = [callers EXCEPT ![t] = [@ EXCEPT !.pc = "body"]]
    /\ UNCHANGED calculator_initialized

\* the exported function works on the calculator and returns (abort_calculation
\* only if the calculator is initialized); the lock_guard is destroyed
BodyReturn(t) ==
    /\ callers[t].pc = "body"
    /\ calculator_mutex' = 0
    /\ callers' = [callers EXCEPT ![t] =
           [pc |-> "idle", call |-> "", made |-> @.made + 1]]
    /\ UNCHANGED calculator_initialized

NextOracle ==
    \/ \E t \in Callers : \E f \in CallsOf(t) : Call(t, f) /\ UNCHANGED <<sheetVars, managerVars>>
    \/ \E t \in Callers : InitLock(t) /\ UNCHANGED <<sheetVars, managerVars>>
    \/ \E t \in Callers : InitBody(t) /\ UNCHANGED <<sheetVars, managerVars>>
    \/ \E t \in Callers : BodyLock(t) /\ UNCHANGED <<sheetVars, managerVars>>
    \/ \E t \in Callers : BodyReturn(t) /\ UNCHANGED <<sheetVars, managerVars>>

\* another evaluation is dispatched: its goroutine makes its calls in turn
NewEvaluation(t) ==
    /\ t # RefreshCaller
    /\ callers[t].pc = "idle"
    /\ callers[t].made = MaxCalls
    /\ callers' = [callers EXCEPT ![t] = [@ EXCEPT !.made = 0]]
    /\ UNCHANGED <<calculator_mutex, calculator_initialized>>

\* the wrapper while evaluations keep being dispatched
NextOracleBusy ==
    \/ NextOracle
    \/ \E t \in Callers : NewEvaluation(t) /\ UNCHANGED <<sheetVars, managerVars>>

\* a thread that can take its next step inside the wrapper takes it: the
\* scheduler runs every thread that is not blocked.  A thread at a lock can
\* take its step only while the mutex is free.
ThreadFair(t) ==
    /\ WF_vars(InitLock(t) /\ UNCHANGED <<sheetVars, managerVars>>)
    /\ WF_vars(InitBody(t) /\ UNCHANGED <<sheetVars, managerVars>>)
    /\ WF_vars(BodyLock(t) /\ UNCHANGED <<sheetVars, managerVars>>)
    /\ WF_vars(BodyReturn(t) /\ UNCHANGED <<sheetVars, managerVars>>)

----------------------------------------------------------------------------
(* The CalculationManager.  K is the manager with the contexts its cancel  *)
(* functions belong to: running maps a line index to the context (its      *)
(* number in K.contexts) whose cancel function it holds.  K.aborts counts  *)
(* the calls of abort_calculation the manager has made.                    *)

ErrorTimeout == <<"t", "i", "m", "e", "o", "u", "t">>

NoneRunning == [i \in {} |-> 0]

NewCalculationManager(size) ==
    [running |-> NoneRunning,
     results |-> Blanks(size),
     calculating |-> [k \in 1..size |-> FALSE],
     contexts |-> <<>>,
     aborts |-> 0]

\* cancel(): a context that is done stays as it is
CancelContext(contexts, h) ==
    [contexts EXCEPT ![h] = IF @ = "live" THEN "canceled" ELSE @]

\* if cancel, exists := cm.running[index]; exists { cancel(); delete(...) }
CancelRunning(K, index) ==
    IF index \in DOMAIN K.running
    THEN [K EXCEPT !.contexts = CancelContext(@, K.running[index]),
                   !.running = [i \in DOMAIN K.running \ {index} |-> K.running[i]]]
    ELSE K

\* a StartCalculation that forgets the evaluation in flight
StartCalculation_NoCancel(K, index) ==
    LET ctx == Len(K.contexts) + 1
    IN  [K EXCEPT !.contexts = Append(@, "live"),
                  !.running = [i \in DOMAIN K.running \cup {index} |->
                                  IF i = index THEN ctx ELSE K.running[i]],
                  !.calculating = SetAt(@, index, TRUE)]

\* the context StartCalculation returns is the last one of K.contexts
StartCalculation(K, index) ==
    LET K1 == CancelRunning(K, index)
        ctx == Len(K1.contexts) + 1
    IN  [K1 EXCEPT !.contexts = Append(@, "live"),
                   !.running = [i \in DOMAIN K1.running \cup {index} |->
                                   IF i = index THEN ctx ELSE K1.running[i]],
                   !.calculating = SetAt(@, index, TRUE),
                   !.aborts = IF index \in DOMAIN K.running THEN @ + 1 ELSE @]

CompleteCalculation(K, index, result) ==
    LET K1 == CancelRunning(K, index)
    IN  [K1 EXCEPT !.results = SetAt(@, index, result),
                   !.calculating = SetAt(@, index, FALSE)]

\* a CancelCalculation that leaves the flag of the line set
CancelCalculation_KeepsFlag(K, index) == CancelRunning(K, index)

CancelCalculation(K, index) ==
    [CancelRunning(K, index) EXCEPT !.calculating = SetAt(@, index, FALSE)]

\* a Resize that only cuts or extends the slices
Resize_TruncatesOnly(K, newSize) ==
    LET n == Len(K.results)
    IN  [K EXCEPT
           !.results = IF newSize > n THEN @ \o Blanks(newSize - n)
                       ELSE Slice(@, 0, newSize),
           !.calculating = IF newSize > n
                           THEN @ \o [k \in 1..(newSize - n) |-> FALSE]
                           ELSE Slice(@, 0, newSize)]

Resize(K, newSize) ==
    LET beyond == {i \in DOMAIN K.running : i >= newSize /\ i < Len(K.results)}
        n == Len(K.results)
    IN  [K EXCEPT
           !.contexts = [h \in 1..Len(K.contexts) |->
                            IF \E i \in beyond : K.running[i] = h /\ K.contexts[h] = "live"
                            THEN "canceled" ELSE K.contexts[h]],
           !.running = [i \in DOMAIN K.running \ beyond |-> K.running[i]],
           !.results = IF newSize > n THEN @ \o Blanks(newSize - n)
                       ELSE Slice(@, 0, newSize),
           !.calculating = IF newSize > n
                           THEN @ \o [k \in 1..(newSize - n) |-> FALSE]
                           ELSE Slice(@, 0, newSize)]

GetState(K) == <<K.results, K.calculating>>

IsCalculating(K, index) ==
    IF index >= 0 /\ index < Len(K.calculating) THEN At(K.calculating, index)
    ELSE FALSE

\* ctx is the state of the context: "live", "canceled" or "deadline"
CalculateExpressionWithContext(ctx, expr, results, currentIndex) ==
    IF ctx = "deadline" THEN ErrorTimeout
    ELSE IF ctx = "canceled" THEN <<>>
    ELSE CalculateExpression(expr, results, currentIndex)

\* texts of the evaluations
ManagerExprs == {<<"1">>, <<"2">>}

\* an evaluation of line index is started
Submit(index, expr) ==
    /\ index < Len(cm.results)
    /\ Len(cm.contexts) < MaxEvals
    /\ cm' = StartCalculation(cm, index)
    /\ evals' = Append(evals, [Index |-> index, expr |-> expr,
                               ctx |-> Len(cm.contexts) + 1,
                               pc |-> "run", Result |-> <<>>])

\* CalculationTimeout has passed for the context h
Deadline(h) ==
    /\ cm.contexts[h] = "live"
    /\ cm' = [cm EXCEPT !.contexts[h] = "deadline"]
    /\ UNCHANGED evals

\* CalculateExpressionWithContext, the select on ctx.Done(): an evaluation
\* whose context is done returns at once, any other goes on to the oracle
EvalCheck(k) ==
    /\ evals[k].pc = "run"
    /\ evals[k].Index < Len(cm.results)
    /\ evals' = [evals EXCEPT ![k] =
           IF cm.contexts[evals[k].ctx] = "live"
           THEN [@ EXCEPT !.pc = "call"]
           ELSE [@ EXCEPT !.pc = "send",
                          !.Result = CalculateExpressionWithContext(
                                         cm.contexts[evals[k].ctx], evals[k].expr,
                                         cm.results, evals[k].Index)]]
    /\ UNCHANGED cm

\* CalculateExpressionWithContext, its last line: CalculateExpression returns
EvalRun(k) ==
    /\ evals[k].pc = "call"
    /\ evals[k].Index < Len(cm.results)
    /\ evals' = [evals EXCEPT ![k] = [@ EXCEPT
           !.pc = "send",
           !.Result = CalculateExpression(evals[k].expr, cm.results,
                                          evals[k].Index)]]
    /\ UNCHANGED cm

\* the evaluation k hands its result to the manager
EvalComplete(k) ==
    /\ evals[k].pc = "send"
    /\ evals[k].Index < Len(cm.results)
    /\ cm' = CompleteCalculation(cm, evals[k].Index, evals[k].Result)
    /\ evals' = RemoveAt(evals, k - 1)

CancelLine(index) ==
    /\ index < Len(cm.results)
    /\ cm' = CancelCalculation(cm, index)
    /\ UNCHANGED evals

ResizeTo(newSize) ==
    /\ cm' = Resize(cm, newSize)
    /\ UNCHANGED evals

NextManager ==
    \/ \E i \in 0..ManagerLines : \E e \in ManagerExprs :
          Submit(i, e) /\ UNCHANGED <<sheetVars, oracleVars>>
    \/ \E h \in 1..Len(cm.contexts) : Deadline(h) /\ UNCHANGED <<sheetVars, oracleVars>>
    \/ \E k \in 1..Len(evals) : EvalCheck(k) /\ UNCHANGED <<sheetVars, oracleVars>>
    \/ \E k \in 1..Len(evals) : EvalRun(k) /\ UNCHANGED <<sheetVars, oracleVars>>
    \/ \E k \in 1..Len(evals) : EvalComplete(k) /\ UNCHANGED <<sheetVars, oracleVars>>
    \/ \E i \in 0..ManagerLines : CancelLine(i) /\ UNCHANGED <<sheetVars, oracleVars>>
    \/ \E n \in 1..(ManagerLines + 1) : ResizeTo(n) /\ UNCHANGED <<sheetVars, oracleVars>>

----------------------------------------------------------------------------
(* The event loop: one action per message Update handles, and the two      *)
(* steps of a CalculateCmd goroutine.                                       *)

Init ==
    /\ Inputs = <<NewInput>>
    /\ Results = <<<<>>>>
    /\ ResultsTail = <<>>
    /\ Calculating = <<FALSE>>
    /\ Focused = 0
    /\ undoStack = <<>>
    /\ redoStack = <<>>
    /\ tasks = <<>>
    /\ lastOp = "init"
    /\ steps = 0
    /\ calculator_mutex = 0
    /\ calculator_initialized = FALSE
    /\ callers = [t \in Callers |-> [pc |-> "idle", call |-> "", made |-> 0]]
    /\ cm = NewCalculationManager(ManagerLines)
    /\ evals = <<>>

\* Update has handled the message op and returns the Model S
Handled(model, op) ==
    \E S \in {model} :
    /\ Inputs' = S.Inputs
    /\ Results' = S.Results
    /\ ResultsTail' = S.ResultsTail
    /\ Calculating' = S.Calculating
    /\ Focused' = S.Focused
    /\ undoStack' = S.undoStack
    /\ redoStack' = S.redoStack
    /\ tasks' = S.tasks
    /\ lastOp' = op
    /\ UNCHANGED <<oracleVars, managerVars>>

FocusedInput == At(Inputs, Focused)

\* texts a key message carries: a typed character, or a few at once
KeyTexts == {<<"1">>, AnsToken}

\* multi-line contents of a paste
PasteContents == {<< <<"1">>, AnsToken >>, << <<"1">>, <<" ">> >>}

\* completions a message can carry
Completions == {AnsToken}

KeyRunes(runes) ==
    Handled(UpdateFocusedInput(M, InsertRunes(FocusedInput, runes)), "KeyRunes")

KeyLeft == Handled(UpdateFocusedInput(M, CharacterBackward(FocusedInput)), "KeyLeft")

\* Backspace on an empty line that is not the only one deletes the line
KeyBackspaceLine ==
    /\ FocusedInput.value = <<>> /\ Len(Inputs) > 1
    /\ Handled(deleteLine(M), "KeyBackspaceLine")

KeyBackspace ==
    /\ ~(FocusedInput.value = <<>> /\ Len(Inputs) > 1)
    /\ Handled(UpdateFocusedInput(M, DeleteCharacterBackward(FocusedInput)),
               "KeyBackspace")

KeyEnter == Handled(createNewLine(M), "KeyEnter")

KeyUp == Handled(focusPreviousLine(M), "KeyUp")

KeyDown == Handled(focusNextLine(M), "KeyDown")

KeyPgUp == Handled(focusFirstLine(M), "KeyPgUp")

KeyPgDown == Handled(focusLastLine(M), "KeyPgDown")

\* texts of the go-to-line dialog when Enter is pressed in it
GoToLineInputs ==
    {<<>>, <<"0">>, <<"1">>, <<" ", "2">>, <<"9">>, <<"-", "1">>, <<"+", "2">>,
     <<"x">>}

GoToLine(value) == Handled(goToLine(M, value), "GoToLine")

KeyCtrlD == Handled(deleteLine(M), "KeyCtrlD")

KeyCtrlN == Handled(clearAll(M), "KeyCtrlN")

\* undo and redo come back without a command: Update goes on to the focused
\* textinput, which ignores the key, and to the submission of the focused line
KeyCtrlZ ==
    LET S == undo(M).m
    IN  Handled(UpdateFocusedInput(S, At(S.Inputs, S.Focused)), "KeyCtrlZ")

KeyCtrlY ==
    LET S == redo(M).m
    IN  Handled(UpdateFocusedInput(S, At(S.Inputs, S.Focused)), "KeyCtrlY")

\* insertSymbol("ans"): with no evaluation to dispatch its batch is empty and
\* Update goes on; the textinput reads Ctrl+A as "line start"
KeyCtrlA ==
    LET S == insertSymbol(M, AnsToken)
    IN  IF Len(S.tasks) > Len(tasks)
        THEN Handled(S, "KeyCtrlA")
        ELSE Handled(UpdateFocusedInput(S, LineStart(At(S.Inputs, S.Focused))),
                     "KeyCtrlA")

KeyCtrlT == Handled(pasteInputTemplate(M), "KeyCtrlT")

\* a bracketed paste of several lines
KeyPaste(content) ==
    /\ Len(content) > 1
    /\ Handled(handleBracketedPaste(M, content), "KeyPaste")

PasteMsgLines(content) ==
    /\ Len(content) > 1
    /\ Handled(handlePasteMessage(M, content), "PasteMsgLines")

PasteMsgText(text) ==
    /\ text # <<>>
    /\ Handled(handlePasteMessage(M, <<text>>), "PasteMsgText")

\* a left click on a result that is there
MouseLeft(clickedLine) ==
    /\ clickedLine < Len(Results) /\ At(Results, clickedLine) # <<>>
    /\ Handled(handleMouseMessage(M, clickedLine), "MouseLeft")

OpenCompletionsMsg(completion) ==
    Handled(handleOpenCompletionsMessage(M, completion), "OpenCompletionsMsg")

\* The goroutine of a CalculateCmd evaluates its expression.  It reads the
\* results through the slice it captured, while the event loop writes the
\* same array: what it reads is the array as it is when this step is taken.
RunTask(k) ==
    LET t == tasks[k]
    IN  /\ t.pc = "run"
        /\ tasks' = [tasks EXCEPT ![k] =
              [t EXCEPT !.pc = "send", !.live = FALSE, !.results = <<>>,
                        !.Result = CalculateExpression(t.expr, TaskView(M, t),
                                                       t.Index)]]
        /\ UNCHANGED <<Inputs, Results, ResultsTail, Calculating, Focused,
                       undoStack, redoStack, lastOp, steps>>
        /\ UNCHANGED <<oracleVars, managerVars>>

\* Update handles the CalculationMsg of goroutine k
CalculationMsg(k) ==
    LET t == tasks[k]
        S == [M EXCEPT !.tasks = RemoveAt(tasks, k - 1)]
    IN  /\ t.pc = "send"
        /\ Handled(handleCalculationMessage(S, [Index |-> t.Index,
                                                Result |-> t.Result]),
                   "CalculationMsg")
        /\ UNCHANGED steps

\* a user input, within the bounds of the model
User(A) == steps < MaxSteps /\ A /\ steps' = steps + 1

Submits(A) == Len(tasks) < MaxTasks /\ User(A)

Fits(text) == Len(FocusedInput.value) + Len(text) <= MaxLen

Next ==
    \/ \E r \in KeyTexts : Fits(r) /\ Submits(KeyRunes(r))
    \/ Submits(KeyLeft)
    \/ Submits(KeyBackspace)
    \/ User(KeyBackspaceLine)
    \/ Len(Inputs) < MaxLines /\ User(KeyEnter)
    \/ User(KeyUp)
    \/ User(KeyDown)
    \/ User(KeyCtrlD)
    \/ User(KeyCtrlN)
    \/ Submits(KeyCtrlZ)
    \/ Submits(KeyCtrlY)
    \/ Fits(AnsToken) /\ Submits(KeyCtrlA)
    \/ Len(Inputs) + Len(inputTemplate) <= MaxLines /\ User(KeyCtrlT)
    \/ \E c \in PasteContents :
          Len(Inputs) + Len(c) <= MaxLines /\ Submits(KeyPaste(c))
    \/ \E c \in PasteContents :
          Len(Inputs) + Len(c) <= MaxLines /\ User(PasteMsgLines(c))
    \/ \E r \in KeyTexts : Fits(r) /\ Submits(PasteMsgText(r))
    \/ \E i \in 0..(MaxLines - 1) : Fits(AnsN(i + 1)) /\ Submits(MouseLeft(i))
    \/ \E c \in Completions : Fits(c) /\ Submits(OpenCompletionsMsg(c))
    \/ \E k \in 1..Len(tasks) : RunTask(k)
    \/ \E k \in 1..Len(tasks) : CalculationMsg(k)

Spec == Init /\ [][Next]_vars

\* Text edits only: typing, deleting characters, moving the cursor and the
\* focus, and a new line below the last one.
NextEdits ==
    \/ \E r \in KeyTexts : Fits(r) /\ Submits(KeyRunes(r))
    \/ Submits(KeyLeft)
    \/ Submits(KeyBackspace)
    \/ Focused = Len(Inputs) - 1 /\ Len(Inputs) < MaxLines /\ User(KeyEnter)
    \/ User(KeyUp)
    \/ User(KeyDown)
    \/ \E k \in 1..Len(tasks) : RunTask(k)
    \/ \E k \in 1..Len(tasks) : CalculationMsg(k)

SpecEdits == Init /\ [][NextEdits]_vars

\* The undo history alone, on a sheet of empty lines, up to its capacity
\* and beyond.
NextHistory ==
    \/ Len(Inputs) < CapLines /\ KeyEnter /\ UNCHANGED steps
    \/ KeyCtrlZ /\ UNCHANGED steps
    \/ KeyCtrlY /\ UNCHANGED steps

SpecHistory == Init /\ [][NextHistory]_vars

\* The threads of the program inside the wrapper, the sheet left alone.
SpecOracle == Init /\ [][NextOracle]_vars

\* The same with evaluations dispatched without end and every thread
\* scheduled fairly.
SpecOracleFair ==
    /\ Init
    /\ [][NextOracleBusy]_vars
    /\ \A t \in Callers : ThreadFair(t)

\* The CalculationManager used as its methods say, the sheet left alone.
SpecManager == Init /\ [][NextManager]_vars

\* Lines that refer to other lines, pasted onto the sheet one at a time or
\* after twelve lines of numbers; addMultipleInputs evaluates each pasted line
\* at once against the results above it.
RefLines ==
    {<<"2">>, <<"h", "i">>, AnsToken, AnsN(2), AnsN(12),
     <<"a", "n", "s", "w", "e", "r">>}

Twelve == [k \in 1..12 |-> FormatNat(k + 1)]

MaxRefLines == 5

NextRefs ==
    \/ \E line \in RefLines :
          /\ Len(Inputs) < MaxRefLines
          /\ PasteMsgLines(<<line, <<>>>>)
          /\ UNCHANGED steps
    \/ \E line \in RefLines :
          /\ Len(Inputs) = 1
          /\ PasteMsgLines(Twelve \o <<line>>)
          /\ UNCHANGED steps

SpecRefs == Init /\ [][NextRefs]_vars

\* Two lines of text pasted onto the initial sheet: each is classified by
\* CheckForCalculation and, if it is to be calculated, evaluated.
ClassifierLines ==
    {<<"1">>, <<"h", "i">>, <<"s", "i", "n">>, <<"s", "i", "n", "(">>,
     <<"a", "r", "e", "a">>, <<"t", "r", "u", "e">>, <<"p", "i">>,
     <<"a", "+", "b">>, AnsToken, <<"x">> \o AnsToken,
     <<"t", "u", "t", "o", "r", "i", "a", "l", "(", ")">>,
     <<"1", "h", "t", "t", "p", ":", "/", "/">>}

NextClassify ==
    \E a \in ClassifierLines, b \in ClassifierLines :
        /\ Len(Inputs) = 1
        /\ PasteMsgLines(<<a, b>>)
        /\ UNCHANGED steps

SpecClassify == Init /\ [][NextClassify]_vars

\* A sheet of lines is pasted, the focus is moved, and one edit is made: from
\* then on only the goroutines run and their messages are handled.
CascadeLines == {<<"1">>, AnsToken}

NextCascade ==
    \/ \E line \in CascadeLines :
          /\ steps = 0
          /\ Len(Inputs) < MaxLines
          /\ PasteMsgLines(<<line, <<>>>>)
          /\ UNCHANGED steps
    \/ steps = 0 /\ KeyUp /\ UNCHANGED steps
    \/ \E r \in KeyTexts : steps = 0 /\ Fits(r) /\ KeyRunes(r) /\ steps' = 1
    \/ steps = 0 /\ FocusedInput.value # <<>> /\ KeyBackspace /\ steps' = 1
    \/ \E k \in 1..Len(tasks) : RunTask(k)
    \/ \E k \in 1..Len(tasks) : CalculationMsg(k)

\* a goroutine that was started runs: weak fairness of RunTask, whose steps
\* are enabled exactly while some task has not evaluated its expression yet
RunTaskFair ==
    \/ []<>(\A k \in 1..Len(tasks) : tasks[k].pc # "run")
    \/ []<><<\E k \in 1..Len(tasks) : RunTask(k)>>_vars

\* every goroutine that was started runs, and the event loop handles every
\* message that was sent to it
SpecCascade ==
    /\ Init
    /\ [][NextCascade]_vars
    /\ RunTaskFair
    /\ WF_vars(\E k \in 1..Len(tasks) : CalculationMsg(k))

\* Typing on the sheet, with a letter among the keys: texts that
\* CheckForCalculation rejects are submitted like any other.
SubmitTexts == KeyTexts \cup {<<"h">>}

NextSubmit ==
    \/ \E r \in SubmitTexts : Fits(r) /\ Submits(KeyRunes(r))
    \/ Submits(KeyBackspace)
    \/ Len(Inputs) < MaxLines /\ User(KeyEnter)
    \/ User(KeyUp)
    \/ \E k \in 1..Len(tasks) : RunTask(k)
    \/ \E k \in 1..Len(tasks) : CalculationMsg(k)

SpecSubmit == Init /\ [][NextSubmit]_vars

\* The lines of the sheet: created, deleted, cleared, pasted, restored, and
\* the focus moved among them, while evaluations of a typed line complete.
NextLines ==
    \/ Fits(<<"1">>) /\ Submits(KeyRunes(<<"1">>))
    \/ User(KeyBackspaceLine)
    \/ Len(Inputs) < MaxLines /\ User(KeyEnter)
    \/ User(KeyUp)
    \/ User(KeyDown)
    \/ User(KeyPgUp)
    \/ User(KeyPgDown)
    \/ \E v \in GoToLineInputs : User(GoToLine(v))
    \/ User(KeyCtrlD)
    \/ User(KeyCtrlN)
    \/ Submits(KeyCtrlZ)
    \/ Submits(KeyCtrlY)
    \/ Len(Inputs) + Len(inputTemplate) <= MaxLines /\ User(KeyCtrlT)
    \/ \E c \in PasteContents :
          Len(Inputs) + Len(c) <= MaxLines /\ Submits(KeyPaste(c))
    \/ \E c \in PasteContents :
          Len(Inputs) + Len(c) <= MaxLines /\ User(PasteMsgLines(c))
    \/ \E k \in 1..Len(tasks) : RunTask(k)
    \/ \E k \in 1..Len(tasks) : CalculationMsg(k)

SpecLines == Init /\ [][NextLines]_vars

----------------------------------------------------------------------------
(* Properties *)

\* what a sheet shows: its lines, its results, the focus and the cursor of the
\* focused line
Sheet(S) ==
    [InputValues |-> [k \in 1..Len(S.Inputs) |-> S.Inputs[k].value],
     Results |-> S.Results,
     Focused |-> S.Focused,
     CursorPos |-> Position(S, S.Focused)]

Top(stack) == At(stack, Len(stack) - 1)

Quiescent == tasks = <<>>

SomeCalculating == \E k \in 1..Len(Calculating) : Calculating[k]

\* the messages whose handler calls saveState
SavingOps == {"KeyBackspaceLine", "KeyEnter", "KeyCtrlD", "KeyCtrlN", "KeyCtrlA",
              "KeyCtrlT", "KeyPaste", "PasteMsgLines", "MouseLeft",
              "OpenCompletionsMsg"}

\* a typed text and a single-line paste
TextOps == {"KeyRunes", "PasteMsgText"}

\* C1: when the text of a line has been edited while an evaluation of that
\* line is in flight, the completion of the superseded evaluation does not
\* write the result of the line; and once no evaluation is in flight, a line
\* whose text refers to no other line holds the result of its newest text.
C1_StaleCompletionDropped ==
    \A k \in 1..Len(tasks) :
        (/\ CalculationMsg(k)
         /\ tasks[k].Index < Len(Inputs)
         /\ tasks[k].expr # Value(M, tasks[k].Index))
        => Results' = Results

C1_NewestTextWins ==
    Quiescent =>
        \A i \in 0..(Len(Inputs) - 1) :
            (Value(M, i) # <<>> /\ ~Contains(ToLower(Value(M, i)), AnsToken))
            => At(Results, i) = CalculateExpression(Value(M, i), <<>>, i)

C1_LastSubmittedWins == []C1_NewestTextWins /\ [][C1_StaleCompletionDropped]_vars

C3_UndoRedoRoundTrip ==
    canUndo(M) =>
        /\ undo(M).ok
        /\ redo(undo(M).m).ok
        /\ Sheet(redo(undo(M).m).m) = Sheet(M)

C3_Witness ==
    /\ canUndo(M)
    /\ Sheet(undo(M).m) # Sheet(M)
    /\ Position(M, Focused) < Len(Value(M, Focused))

\* the number of consecutive undo() calls that succeed
RECURSIVE UndoCount(_)
UndoCount(S) ==
    IF canUndo(S) /\ undo(S).ok
    THEN Then(undo(S).m, LAMBDA U : 1 + UndoCount(U))
    ELSE 0

\* C4: the undo stack never holds more than maxSize snapshots; a push onto a
\* full stack drops the oldest snapshot and keeps the others in order; and
\* exactly as many consecutive undo() calls succeed as the stack holds.
C4_StackBounded ==
    /\ Len(undoStack) <= maxSize
    /\ Len(redoStack) <= maxSize
    /\ Len(undoStack) = maxSize
       => saveState(M).undoStack = Append(Tail(undoStack), Sheet(M))
    /\ UndoCount(M) = Len(undoStack)

C4_Witness ==
    /\ Len(Inputs) > maxSize + 1
    /\ lastOp = "KeyEnter"
    /\ Len(undoStack) = maxSize
    /\ UndoCount(M) = maxSize
    /\ Len(At(undoStack, 0).InputValues) > 1

\* the handlers that call saveState, applied to the sheet as it is
SavedSheets ==
    {createNewLine(M), deleteLine(M), clearAll(M), pasteInputTemplate(M),
     insertSymbol(M, AnsToken)}
    \cup {addMultipleInputs(M, c) : c \in PasteContents}
    \cup {insertCompletion(M, c) : c \in Completions}
    \cup {handleMouseMessage(M, i) :
              i \in {j \in 0..(Len(Results) - 1) : At(Results, j) # <<>>}}

\* C5 as stated: after an undo, a mutating action, a typed text and a
\* single-line paste among them, leaves the redo stack empty.
C5_AnyMutationClearsRedo ==
    lastOp \in SavingOps \cup TextOps => ~canRedo(M)

\* C5: after an undo, the actions that call saveState (line insert, line
\* delete, clear-all, multi-line paste, template, symbol, completion and
\* reference-click insertion) leave the redo stack empty, and redo() then
\* returns false.
C5_SavingClearsRedo ==
    /\ lastOp \in SavingOps => ~canRedo(M)
    /\ canRedo(M) => \A S \in SavedSheets : ~canRedo(S) /\ ~redo(S).ok

C5_Witness ==
    /\ lastOp = "KeyCtrlZ"
    /\ canRedo(M)
    /\ canUndo(M)
    /\ ~canRedo(createNewLine(M))

\* C6: saveState() pushes exactly one snapshot, of the sheet as it is, onto
\* the undo stack (one more entry while below capacity), empties the redo
\* stack, and leaves lines, results, flags, focus and cursor as they were.
C6_SaveStateFrame ==
    LET S == saveState(M)
    IN  /\ Len(undoStack) < maxSize
           => S.undoStack = Append(undoStack, Sheet(M))
        /\ Top(S.undoStack) = Sheet(M)
        /\ S.redoStack = <<>>
        /\ S.Inputs = Inputs
        /\ S.Results = Results
        /\ S.Calculating = Calculating
        /\ S.Focused = Focused

C6_Witness ==
    /\ canRedo(M)
    /\ canUndo(M)
    /\ SomeCalculating
    /\ Position(M, Focused) > 0

\* C7: undo() on an empty undo stack, and redo() on an empty redo stack,
\* return false and leave the sheet and both stacks as they were.
C7_EmptyStacks ==
    /\ ~canUndo(M) => undo(M) = [ok |-> FALSE, m |-> M]
    /\ ~canRedo(M) => redo(M) = [ok |-> FALSE, m |-> M]

C7_Witness ==
    /\ ~canUndo(M)
    /\ canRedo(M)
    /\ lastOp = "KeyCtrlZ"
    /\ Value(M, Focused) # <<>>

RECURSIVE UndoTimes(_, _)
UndoTimes(S, k) ==
    IF k = 0 THEN S ELSE Then(undo(S).m, LAMBDA U : UndoTimes(U, k - 1))

\* C8: with n snapshots on the undo stack, the k-th consecutive undo() brings
\* back the snapshot taken (n - k + 1)-th: its line count, texts, results,
\* focused index and cursor.
C8_UndoIsLIFO ==
    \A k \in 1..Len(undoStack) :
        Sheet(UndoTimes(M, k)) = At(undoStack, Len(undoStack) - k)

C8_Witness ==
    /\ Len(undoStack) >= 2
    /\ At(undoStack, 0) # At(undoStack, 1)
    /\ Top(undoStack) # Sheet(M)
    /\ Sheet(UndoTimes(M, 2)) = At(undoStack, Len(undoStack) - 2)

\* the step is Update on one of the messages ops, and what the claim says of it:
\* the sheet before the step is on top of the undo stack, and one undo()
\* brings it back
SnapshotBefore(ops) ==
    (lastOp' \in ops /\ steps' = steps + 1)
    => /\ canUndo(M')
       /\ Top(undoStack') = Sheet(M)
       /\ Sheet(undo(M').m) = Sheet(M)

\* C9 as stated: every user action that changes the sheet, a single-line
\* paste among them, takes its snapshot before it changes anything.
C9_EveryActionSnapshots == [][SnapshotBefore(SavingOps \cup {"PasteMsgText"})]_vars

\* C9: line insert, line delete, clear-all, multi-line paste, template,
\* symbol, completion and reference-click insertion take a snapshot before
\* they change anything, so that one undo() brings back the sheet as it was.
C9_SavingActionsSnapshot == [][SnapshotBefore(SavingOps)]_vars

C9_Witness ==
    /\ lastOp \in SavingOps
    /\ canUndo(M)
    /\ Top(undoStack) # Sheet(M)
    /\ Sheet(undo(M).m) = Top(undoStack)

\* snapshots handed to restoreState, well formed or not
SnapshotInputs ==
    {[InputValues |-> v, Results |-> [k \in 1..Len(v) |-> <<>>],
      Focused |-> f, CursorPos |-> c] :
        v \in {<< <<"1">> >>, << <<"1">>, AnsToken >>},
        f \in (0 - 1)..MaxLines, c \in 0..(MaxLen + 1)}

Restored(S) ==
    /\ Len(S.Calculating) = Len(S.Inputs)
    /\ \A k \in 1..Len(S.Calculating) : ~S.Calculating[k]
    /\ S.Focused \in 0..(Len(S.Inputs) - 1)
    /\ Position(S, S.Focused) \in 0..Len(Value(S, S.Focused))

\* C10: after a restore (by undo, by redo, or of any snapshot) no flag is set,
\* the focused index is one of the lines, the cursor of the focused line is
\* within its text, and a snapshot cursor beyond the text is put at its end.
C10_RestoreNormalises ==
    /\ canUndo(M) => Restored(undo(M).m)
    /\ canRedo(M) => Restored(redo(M).m)
    /\ \A st \in SnapshotInputs :
          LET S == restoreState(M, st)
          IN  /\ Restored(S)
              /\ Len(S.Inputs) = Len(st.InputValues)
              /\ (st.Focused \in 0..(Len(S.Inputs) - 1)
                  /\ st.CursorPos > Len(Value(S, st.Focused)))
                 => Position(S, S.Focused) = Len(Value(S, S.Focused))

C10_Witness ==
    /\ canUndo(M)
    /\ SomeCalculating
    /\ Len(undo(M).m.Inputs) # Len(Inputs)
    /\ Restored(undo(M).m)

\* what the goroutine t of the sheet S sends: the result it has computed, or
\* the one it computes from the results it can still see
TaskResult(S, t) ==
    IF t.pc = "send" THEN t.Result
    ELSE CalculateExpression(t.expr, TaskView(S, t), t.Index)

\* the sheet S after Update has handled the completion of its k-th goroutine
Completed(S, k) ==
    handleCalculationMessage(
        [S EXCEPT !.tasks = RemoveAt(@, k - 1)],
        [Index |-> S.tasks[k].Index, Result |-> TaskResult(S, S.tasks[k])])

\* no completion of an evaluation in flight changes a result or a flag of S
Inert(S) ==
    \A k \in 1..Len(S.tasks) :
        /\ Completed(S, k).Results = S.Results
        /\ Completed(S, k).Calculating = S.Calculating

\* C11: an evaluation submitted before an undo() or a redo() is inert after
\* it: its completion, arriving after the restore, changes no result and no
\* evaluation flag of the restored sheet.
C11_StaleTaskInert ==
    /\ canUndo(M) => Inert(undo(M).m)
    /\ canRedo(M) => Inert(redo(M).m)

\* what deleteLine() makes of the sheet as it is: the only line is kept with
\* an empty text and an empty result, and of several lines exactly the
\* focused one goes
DeleteLineShape ==
    LET D == deleteLine(M)
    IN  IF Len(Inputs) = 1
        THEN /\ Len(D.Inputs) = 1 /\ Len(D.Results) = 1
             /\ Value(D, 0) = <<>>
             /\ At(D.Results, 0) = <<>>
        ELSE /\ [k \in 1..Len(D.Inputs) |-> D.Inputs[k].value]
                    = RemoveAt([k \in 1..Len(Inputs) |-> Inputs[k].value], Focused)
             /\ D.Results = RemoveAt(Results, Focused)
             /\ D.Calculating = RemoveAt(Calculating, Focused)

\* C12: the sheet always has at least one line; deleteLine() on a one-line
\* sheet keeps the line with an empty text and an empty result, and they stay
\* empty when the evaluations still in flight complete with no new input;
\* deleteLine() on a longer sheet removes exactly the focused line.
C12_DeleteLineKeepsOneLine ==
    /\ Len(Inputs) >= 1
    /\ Len(Results) = Len(Inputs)
    /\ DeleteLineShape
    /\ Len(Inputs) = 1 =>
          \A k \in 1..Len(tasks) :
              /\ Value(Completed(deleteLine(M), k), 0) = <<>>
              /\ At(Completed(deleteLine(M), k).Results, 0) = <<>>

C12_AtLeastOneLine == Len(Inputs) >= 1 /\ DeleteLineShape

\* C13: an evaluation in flight for the line that deleteLine() deletes, or
\* for any line when clearAll() clears the sheet, is cancelled: its completion
\* changes no result of the sheet that deleteLine() or clearAll() has left.
C13_DeletedLineCancelled ==
    \A k \in 1..Len(tasks) :
        /\ tasks[k].Index = Focused
           => Completed(deleteLine(M), k).Results = deleteLine(M).Results
        /\ Completed(clearAll(M), k).Results = clearAll(M).Results

\* the evaluations in flight whose completion Update will apply to line i
LiveFor(i) == {k \in 1..Len(tasks) : tasks[k].Index = i}

\* C14: in every reachable state every line has at most one evaluation in
\* flight whose completion will be applied to it.
C14_OneLivePerLine ==
    \A i \in 0..(Len(Inputs) - 1) : Cardinality(LiveFor(i)) <= 1

\* expressions handed to the resolution
RefExprs ==
    RefLines \cup {AnsN(1), AnsN(3), AnsN(10), AnsToken \o <<"+">> \o AnsN(2),
                   <<"1", "+">> \o AnsN(12), <<"1", "+">> \o AnsToken,
                   AnsToken \o <<"+">> \o AnsToken,
                   AnsN(2) \o <<"+">> \o AnsN(1), <<"x">> \o AnsToken,
                   AnsToken \o <<"_">>}

\* the digits that stand in s from position i on
RECURSIVE DigitRun(_, _)
DigitRun(s, i) ==
    IF i < Len(s) /\ IsDigit(s[i + 1]) THEN <<s[i + 1]>> \o DigitRun(s, i + 1)
    ELSE <<>>

\* the positions of s where the letters "ans" stand
AnsPositions(s) == {i \in 0..Len(s) : HasPrefixAt(s, i, AnsToken)}

\* the number N of the token ansN at position i of s; -1 for a bare "ans"
RefNumber(s, i) ==
    IF DigitRun(s, i + 3) = <<>> THEN -1 ELSE ParseNat(DigitRun(s, i + 3), 0)

\* every "ans" of s is a token ansN with N beyond the line index c
OnlyForwardRefs(s, c) ==
    /\ AnsPositions(s) # {}
    /\ \A i \in AnsPositions(s) : RefNumber(s, i) > c

\* C15: at line index c a token ansN with N > c, of one digit or of several,
\* reaches the oracle exactly as written: a pasted line whose references are
\* all forward or self references is handed over unchanged, and shows what
\* the oracle makes of its text.
C15_ForwardRefsUntouched ==
    \A c \in 1..(Len(Inputs) - 1) :
        OnlyForwardRefs(Value(M, c), c)
        => /\ ResolveReferences(Value(M, c), Results, c) = Value(M, c)
           /\ At(Results, c) = calculate_expression(Value(M, c))

\* the same for the tokens of one digit
C15_SingleDigitForwardRefsUntouched ==
    \A c \in 0..Len(Results) : \A e \in RefExprs :
        (OnlyForwardRefs(e, c) /\ \A i \in AnsPositions(e) : RefNumber(e, i) < 10)
        => ResolveReferences(e, Results, c) = e

\* the result of line N (1-based), or 0 when it is empty
ResultOrZero(results, N) ==
    IF results[N] # <<>> THEN results[N] ELSE <<"0">>

\* the nearest non-empty result below line index c, or 0 when there is none
NearestResult(results, c) ==
    LET below == {j \in 1..Min(c, Len(results)) : results[j] # <<>>}
    IN  IF below = {} THEN <<"0">>
        ELSE results[CHOOSE j \in below : \A k \in below : k <= j]

\* a bare "ans" at position i of s, with no word character on either side
BareAnsAt(s, i) ==
    /\ HasPrefixAt(s, i, AnsToken)
    /\ i = 0 \/ ~IsWordChar(s[i])
    /\ i + 3 = Len(s) \/ ~IsWordChar(s[i + 4])

\* what the references of s stand for at line index c, token by token: ansN
\* with 1 <= N <= c is the result of line N, a bare ans is the nearest result,
\* everything else is kept
RECURSIVE SubstituteRefs(_, _, _, _)
SubstituteRefs(s, i, results, c) ==
    IF i >= Len(s) THEN <<>>
    ELSE IF ~HasPrefixAt(s, i, AnsToken)
         THEN <<s[i + 1]>> \o SubstituteRefs(s, i + 1, results, c)
    ELSE LET d == DigitRun(s, i + 3)
             N == RefNumber(s, i)
         IN  IF d = <<>>
             THEN IF BareAnsAt(s, i)
                  THEN NearestResult(results, c)
                           \o SubstituteRefs(s, i + 3, results, c)
                  ELSE <<s[i + 1]>> \o SubstituteRefs(s, i + 1, results, c)
             ELSE (IF N >= 1 /\ N <= c THEN ResultOrZero(results, N)
                   ELSE AnsToken \o d)
                  \o SubstituteRefs(s, i + 3 + Len(d), results, c)

\* s has a numbered reference, and every numbered reference of s is to a line
\* before line index c
BackwardRefs(s, c) ==
    /\ \E i \in AnsPositions(s) : RefNumber(s, i) >= 1
    /\ \A i \in AnsPositions(s) : RefNumber(s, i) <= c

\* C16: at line index c every token ansN with 1 <= N <= c, of one digit or of
\* several, is replaced by the result of line N, or by 0 when that result is
\* empty, and a bare ans next to it by the nearest result.
C16_NumberedRefsResolved ==
    \A c \in 0..Len(Results) : \A e \in RefExprs :
        BackwardRefs(e, c)
        => ResolveReferences(e, Results, c) = SubstituteRefs(e, 0, Results, c)

\* the same for the tokens of one digit
C16_SingleDigitRefsResolved ==
    \A c \in 0..Len(Results) : \A e \in RefExprs :
        (BackwardRefs(e, c) /\ \A i \in AnsPositions(e) : RefNumber(e, i) < 10)
        => ResolveReferences(e, Results, c) = SubstituteRefs(e, 0, Results, c)

\* every "ans" of s is bare: no digit follows it
OnlyBareAns(s) ==
    /\ AnsPositions(s) # {}
    /\ \A i \in AnsPositions(s) : RefNumber(s, i) = -1

ClassifierTexts ==
    ClassifierLines \cup {<<>>, <<" ", " ">>, <<"x", "(">>, <<"t", "r", "u", "e", "r">>,
                          <<"s", "i", "n", " ", "x">>, <<"a", " ", "=">>}

\* the rules of the classifier in their order, the first that matches
\* deciding, with the functions and the variables the oracle knows
ShouldEvaluate(text) ==
    IF text = <<>> \/ \A k \in 1..Len(text) : text[k] = " " THEN FALSE
    ELSE IF Contains(text, <<"h", "t", "t", "p", ":", "/", "/">>) THEN FALSE
    ELSE IF \E k \in 1..Len(text) : IsDigit(text[k]) THEN TRUE
    ELSE IF text = <<"t", "u", "t", "o", "r", "i", "a", "l", "(", ")">> THEN FALSE
    ELSE IF \E k \in 1..Len(text) : <<text[k]>> \in operators THEN TRUE
    ELSE IF \E f \in basicFunctions \cup advancedFunctionNames :
                Contains(text, f \o <<"(">>) THEN TRUE
    ELSE IF \E v \in variableNames : Len(v) > 3 /\ Contains(text, v) THEN TRUE
    ELSE IF HasPrefix(text, AnsToken) THEN TRUE
    ELSE FALSE

\* C18: CheckForCalculation gives the verdict of the first matching rule, in
\* the order empty, http://, digit, tutorial(), operator, function call, long
\* variable name, ans prefix; a text that matches none of them, such as the
\* bare name of a function, is not calculated and shows no result.
C18_FirstRuleDecides ==
    \A c \in 1..(Len(Inputs) - 1) :
        /\ CheckForCalculation(Value(M, c)) = ShouldEvaluate(Value(M, c))
        /\ (At(Results, c) # <<>>) = ShouldEvaluate(Value(M, c))

\* the same but for the bare names of the advanced functions
C18_FirstRuleDecidesButAdvancedNames ==
    /\ \A text \in ClassifierTexts :
          (\A f \in advancedFunctionNames : ~Contains(text, f))
          => CheckForCalculation(text) = ShouldEvaluate(text)
    /\ \A c \in 1..(Len(Inputs) - 1) :
          (\A f \in advancedFunctionNames : ~Contains(Value(M, c), f))
          => (At(Results, c) # <<>>) = ShouldEvaluate(Value(M, c))

\* the caller t is at work on the calculator instance: in the body of
\* initialize_calculator or in the body of an exported function
InsideOracle(t) == callers[t].pc \in {"init_body", "body"}

\* C19: no two calls that touch the calculator (evaluation, exchange-rate
\* refresh, symbol enumeration, initialization) are inside the oracle at the
\* same time, whatever the interleaving of the evaluations and the refresh;
\* the one that is inside holds the mutex, and the body of an exported
\* function that works on the calculator finds it initialized.
C19_OracleMutualExclusion ==
    /\ \A t1 \in Callers : \A t2 \in Callers :
          (InsideOracle(t1) /\ InsideOracle(t2)) => t1 = t2
    /\ \A t \in Callers : InsideOracle(t) <=> calculator_mutex = t
    /\ \A t \in Callers :
          (callers[t].pc = "body" /\ callers[t].call # "abort_calculation")
          => calculator_initialized

\* an evaluation is inside calculate_expression while the refresh waits for
\* the mutex at its body and another evaluation waits at its initialization
C19_Witness ==
    \E t1 \in Callers : \E t2 \in Callers :
        /\ callers[t1].pc = "body"
        /\ callers[t1].call = "calculate_expression"
        /\ callers[RefreshCaller].pc = "lock"
        /\ callers[t2].pc = "init_lock"
        /\ callers[t2].call = "get_function_count"

\* what the evaluation e hands to CompleteCalculation
EvalResult(e) ==
    IF e.pc = "send" THEN e.Result
    ELSE IF e.pc = "call" THEN CalculateExpression(e.expr, cm.results, e.Index)
    ELSE CalculateExpressionWithContext(cm.contexts[e.ctx], e.expr,
                                        cm.results, e.Index)

\* a later StartCalculation for the same line holds the handle of the line
Superseded(e) ==
    /\ e.Index < Len(cm.results)
    /\ e.Index \in DOMAIN cm.running
    /\ cm.running[e.Index] # e.ctx

\* C20: the completion of an evaluation that a later StartCalculation for the
\* same line has superseded changes nothing: it stores no result, leaves
\* calculating[i] set, and neither cancels nor removes the handle of the
\* later evaluation.
C20_SupersededCompletionNoOp ==
    \A k \in 1..Len(evals) :
        Superseded(evals[k])
        => LET K == CompleteCalculation(cm, evals[k].Index, EvalResult(evals[k]))
           IN  /\ K.results = cm.results
               /\ K.calculating = cm.calculating
               /\ K.running = cm.running
               /\ K.contexts = cm.contexts

\* the evaluations of line i that are in flight with a context that is
\* neither cancelled nor past its deadline
LiveEvals(K, i) ==
    {k \in 1..Len(evals) : evals[k].Index = i /\ K.contexts[evals[k].ctx] = "live"}

\* the line i as the manager K holds it: its handle, result and flag
ManagerLine(K, i) ==
    [handle |-> IF i \in DOMAIN K.running THEN K.running[i] ELSE 0,
     live |-> IF i \in DOMAIN K.running
              THEN K.contexts[K.running[i]] = "live" ELSE FALSE,
     result |-> At(K.results, i),
     calculating |-> At(K.calculating, i)]

\* C21: Resize(n) cancels every evaluation in flight for an index >= n and
\* removes its handle, leaves results and calculating with length n, and
\* leaves the handle, result and flag of every index < n as they were.
C21_ResizeCancelsBeyond ==
    \A n \in 0..(ManagerLines + 2) :
        LET K == Resize(cm, n)
        IN  /\ \A i \in DOMAIN K.running : i < n
            /\ \A k \in 1..Len(evals) :
                   evals[k].Index >= n => K.contexts[evals[k].ctx] # "live"
            /\ Len(K.results) = n
            /\ Len(K.calculating) = n
            /\ \A i \in 0..(Min(n, Len(cm.results)) - 1) :
                   ManagerLine(K, i) = ManagerLine(cm, i)

\* a Resize has cut the manager to one line while both lines had an
\* evaluation in flight: that of line 1 is cancelled, that of line 0 goes on
C21_Witness ==
    /\ Len(cm.results) = 1
    /\ 0 \in DOMAIN cm.running
    /\ cm.contexts[cm.running[0]] = "live"
    /\ \E k \in 1..Len(evals) :
           /\ evals[k].Index = 1
           /\ cm.contexts[evals[k].ctx] = "canceled"
           /\ evals[k].ctx > cm.running[0]

\* the lines below line i that have text and are not calculating
Dependents(S, i) ==
    {j \in (i + 1)..(Len(S.Inputs) - 1) : Value(S, j) # <<>> /\ ~At(S.Calculating, j)}

\* the tasks the handler has dispatched: those of S beyond the first n
Dispatched(S, n) == SubSeq(S.tasks, n + 1, Len(S.tasks))

\* the completion of task k, as Update handles it in the current state
AfterCompletion(k) ==
    handleCalculationMessage([M EXCEPT !.tasks = RemoveAt(tasks, k - 1)],
                             [Index |-> tasks[k].Index, Result |-> tasks[k].Result])

\* C22: a completion applied to line i submits again exactly the lines j > i
\* that have text and are not calculating, each once with its text, and flags
\* them calculating; no line j <= i is submitted, whatever the lines refer to.
C22_CascadeExactlyBelow ==
    \A k \in 1..Len(tasks) :
        (tasks[k].pc = "send" /\ tasks[k].Index < Len(Results))
        => LET i == tasks[k].Index
               S == AfterCompletion(k)
               J == Dependents(M, i)
               new == Dispatched(S, Len(tasks) - 1)
           IN  /\ Len(new) = Cardinality(J)
               /\ {new[n].Index : n \in 1..Len(new)} = J
               /\ \A n \in 1..Len(new) :
                      /\ new[n].expr = Value(M, new[n].Index)
                      /\ new[n].pc = "run"
               /\ \A j \in 0..(Len(Inputs) - 1) :
                      At(S.Calculating, j) =
                          IF j = i THEN FALSE
                          ELSE IF j \in J THEN TRUE ELSE At(Calculating, j)

\* the completion of line 0 has been handled on a sheet of three lines with
\* text: line 1, which refers to no result, was idle and is submitted; line 2
\* was calculating already and is not submitted a second time
C22_Witness ==
    /\ lastOp = "CalculationMsg"
    /\ Len(Inputs) = 3
    /\ Value(M, 0) # <<>>
    /\ Value(M, 1) = <<"1">>
    /\ Value(M, 2) # <<>>
    /\ Calculating = <<FALSE, TRUE, TRUE>>
    /\ Len(tasks) = 2
    /\ tasks[1].Index = 2
    /\ tasks[2].Index = 1
    /\ tasks[2].pc = "run"

C24_FlaggedLineHasEvaluation ==
    \A j \in 0..(Len(Calculating) - 1) :
        At(Calculating, j) => \E k \in 1..Len(tasks) : tasks[k].Index = j

\* the submission of the focused line that Update has just handled was for a
\* text the classifier rejects
RejectedSubmission ==
    /\ lastOp \in {"KeyRunes", "KeyBackspace"}
    /\ FocusedInput.value # <<>>
    /\ ~CheckForCalculation(FocusedInput.value)

\* C25: submitting a line whose text CheckForCalculation rejects starts no
\* evaluation: no CalculateCmd is in flight for that text and the line is not
\* flagged calculating on its account.
C25_RejectedTextNotEvaluated ==
    RejectedSubmission
    => \A k \in 1..Len(tasks) :
           ~(tasks[k].Index = Focused /\ tasks[k].expr = FocusedInput.value)

\* the deadline of the evaluation e has passed before it has returned
PastDeadline(e) ==
    /\ e.pc \in {"run", "call"}
    /\ e.Index < Len(cm.results)
    /\ cm.contexts[e.ctx] = "deadline"

\* C26: an evaluation whose deadline passes before it returns ends as timed
\* out, also when the oracle call has started already: its completion stores
\* the timeout message as the line's result and clears calculating.
C26_DeadlineEndsAsTimeout ==
    \A k \in 1..Len(evals) :
        PastDeadline(evals[k])
        => LET K == CompleteCalculation(cm, evals[k].Index, EvalResult(evals[k]))
           IN  /\ At(K.results, evals[k].Index) = ErrorTimeout
               /\ ~At(K.calculating, evals[k].Index)

\* C27: StartCalculation(i, e), while running holds a handle for i, cancels
\* the context of that handle, drops the handle, calls abort_calculation once,
\* registers a fresh live context for i and sets calculating[i]; the results,
\* and the handle, context and flag of every other index, are as before.
C27_StartCalculationFrame ==
    \A i \in DOMAIN cm.running :
        LET K == StartCalculation(cm, i)
            h == cm.running[i]
        IN  /\ K.contexts[h] = IF cm.contexts[h] = "live" THEN "canceled"
                               ELSE cm.contexts[h]
            /\ \A j \in DOMAIN K.running : K.running[j] # h
            /\ K.aborts = cm.aborts + 1
            /\ K.running[i] = Len(cm.contexts) + 1
            /\ K.contexts[K.running[i]] = "live"
            /\ At(K.calculating, i)
            /\ K.results = cm.results
            /\ \A j \in 0..(Len(cm.results) - 1) :
                   j # i => ManagerLine(K, j) = ManagerLine(cm, j)
            /\ \A g \in 1..Len(cm.contexts) :
                   g # h => K.contexts[g] = cm.contexts[g]

\* line 0 has been started a second time while its first evaluation was
\* inside the oracle: the first context is cancelled, the handle is that of
\* the second, and the abort has been signalled
C27_Witness ==
    /\ Len(evals) = 2
    /\ evals[1].Index = 0 /\ evals[2].Index = 0
    /\ evals[1].pc = "call"
    /\ cm.contexts = <<"canceled", "live">>
    /\ cm.running[0] = 2
    /\ cm.aborts = 1
    /\ cm.calculating = <<TRUE, FALSE>>

\* some caller is inside the body of calculate_expression
EvaluationInside ==
    \E t \in Callers :
        callers[t].pc = "body" /\ callers[t].call = "calculate_expression"

\* the caller t invokes abort_calculation in this step
AbortInvoked(t) ==
    /\ callers[t].pc = "idle"
    /\ callers'[t].pc = "lock"
    /\ callers'[t].call = "abort_calculation"

\* C28: an abort_calculation invoked while calculate_expression is executing
\* inside the oracle does not have to wait for that call: its lock is free
\* to be taken, so calculator->abort() can run before the evaluation returns.
C28_AbortReachesCallInFlight ==
    [][\A t \in Callers :
          (EvaluationInside /\ AbortInvoked(t)) => MutexFree(calculator_mutex')]_vars

\* C29: neither the refresh nor an evaluation starves: every call into the
\* wrapper, once made, acquires the mutex and returns, while the other
\* threads keep making calls.
C29_NoStarvation ==
    \A t \in Callers : (callers[t].pc # "idle") ~> (callers[t].pc = "idle")

\* the messages whose handler goes through addMultipleInputs
PastingOps == {"PasteMsgLines", "KeyPaste", "KeyCtrlT"}

\* C30: no step of the event loop evaluates an expression itself: a line that
\* a multi-line paste or the template adds has no result when the step ends;
\* its result arrives with a later CalculationMsg.
C30_NoSynchronousEvaluation ==
    [][(lastOp' \in PastingOps /\ Len(Results') > Len(Results))
       => \A j \in Len(Results)..(Len(Results') - 1) : At(Results', j) = <<>>]_vars

\* C31: whenever no evaluation is in flight, every line whose text is empty
\* has an empty result.
C31_EmptyLineEmptyResult ==
    Quiescent =>
        \A i \in 0..(Len(Inputs) - 1) :
            At(Inputs, i).value = <<>> => At(Results, i) = <<>>

\* what a paste of content is to do to the sheet: one line per non-blank
\* trimmed line at the end, each with its result over the lines above it, the
\* lines that were there left alone, the focus on the last line
PasteAppends(content) ==
    LET new == NonBlankLines(content)
        n == Len(Inputs)
    IN  /\ Len(Inputs') = n + Len(new)
        /\ Len(Results') = n + Len(new)
        /\ \A k \in 1..Len(new) :
              /\ Inputs'[n + k].value = new[k]
              /\ Results'[n + k] =
                     CalculateExpression(new[k],
                         SubSeq(Results', 1, n + k - 1) \o <<<<>>>>, n + k - 1)
        /\ \A k \in 1..n :
              /\ Inputs'[k].value = Inputs[k].value
              /\ Results'[k] = Results[k]
        /\ Focused' = Len(Inputs') - 1

\* C32: a paste of several lines, as a clipboard message or as a bracketed
\* paste, appends one line per non-blank trimmed line of the content in order,
\* evaluates each against the results of the lines before it, leaves the
\* existing lines and results unchanged and focuses the last line.
C32_PasteAppendsLines ==
    [][\A c \in PasteContents :
          (PasteMsgLines(c) \/ KeyPaste(c)) => PasteAppends(c)]_vars

\* the lines that a step which deleted or inserted a line has moved: those
\* below the deleted line, or below the inserted one
MovedLines ==
    IF Len(Inputs') < Len(Inputs)
    THEN Focused..(Len(Inputs') - 1)
    ELSE (Focused + 2)..(Len(Inputs') - 1)

C34_LinesAndFocusInRange ==
    /\ Len(Inputs) = Len(Results)
    /\ Len(Results) = Len(Calculating)
    /\ Len(Inputs) >= 1
    /\ 0 <= Focused /\ Focused < Len(Inputs)

\* the last line of a sheet of several lines has just been deleted: the focus
\* the snapshot recorded is past the new end, the focus is on the new last line
C34_Witness ==
    /\ lastOp \in {"KeyCtrlD", "KeyBackspaceLine"}
    /\ Len(undoStack) >= 2
    /\ Focused = Len(Inputs) - 1
    /\ Len(Top(undoStack).InputValues) = Len(Inputs) + 1
    /\ Top(undoStack).Focused = Len(Inputs)

\* the evaluations in flight whose completion message will carry index i
PendingFor(i) == {k \in 1..Len(tasks) : tasks[k].Index = i}

\* C35: in every reachable state the flag of line i is set exactly when one
\* evaluation whose completion carries index i is pending, and no completion
\* is pending for an index that has no line.
C35_FlagIffPendingCompletion ==
    /\ \A i \in 0..(Len(Calculating) - 1) :
          At(Calculating, i) <=> Cardinality(PendingFor(i)) = 1
    /\ \A k \in 1..Len(tasks) : tasks[k].Index < Len(Calculating)

\* the sheet as the step leaves it
MNext ==
    [Inputs |-> Inputs', Results |-> Results', ResultsTail |-> ResultsTail',
     Calculating |-> Calculating', Focused |-> Focused',
     undoStack |-> undoStack', redoStack |-> redoStack', tasks |-> tasks']

\* the results an evaluation resolves its references against: those of the
\* lines before its own, read through the slice its closure holds
PriorResults(S, t) == SubSeq(TaskView(S, t), 1, Min(t.Index, t.len))

\* C36: a completion handled while an evaluation has yet to read its prior
\* results does not change what it will read: it resolves its references
\* against the values stored when it was submitted.
C36_TaskReadsResultsAsSubmitted ==
    [][\A k \in 1..Len(tasks) : \A j \in 1..Len(tasks) :
          (CalculationMsg(k) /\ j # k /\ tasks[j].pc = "run")
          => LET after == IF j < k THEN j ELSE j - 1
             IN  PriorResults(MNext, tasks'[after]) = PriorResults(M, tasks[j])]_vars

\* C37: a user action that is undoable pushes exactly one snapshot, that of
\* the sheet it was made on, onto the undo stack; so two undos after two
\* actions lead back to the sheet before the first.
C37_OneSnapshotPerAction ==
    [][(steps' # steps /\ lastOp' \in SavingOps)
       => undoStack' = Push(undoStack, createSnapshot(M))]_vars

\* the snapshots of a stack that a step leaves on it are as they were: the
\* stack changes at its top only, by a pop or by pushes, and loses its oldest
\* snapshots only when it is full
SnapshotsKept(old, new) ==
    \E d \in 0..2 :
        LET keep == Min(Len(old) - d, Len(new))
        IN  /\ d > 0 => Len(new) = maxSize
            /\ keep >= 0
            /\ SubSeq(old, d + 1, d + keep) = SubSeq(new, 1, keep)

\* C38: no step changes the texts, results, focus or cursor recorded in a
\* snapshot that stays on the undo stack or on the redo stack.
C38_SnapshotsImmutable ==
    [][/\ SnapshotsKept(undoStack, undoStack')
       /\ SnapshotsKept(redoStack, redoStack')]_vars

\* a completion has written the result of a line in place while the newest
\* snapshot, taken before, records the line without a result
C38_Witness ==
    /\ lastOp = "CalculationMsg"
    /\ undoStack # <<>>
    /\ \E i \in 0..(Len(Results) - 1) :
          /\ i < Len(Top(undoStack).Results)
          /\ At(Results, i) # <<>>
          /\ At(Top(undoStack).Results, i) = <<>>
          /\ At(Top(undoStack).InputValues, i) = At(Inputs, i).value

\* C39: the undo stack and the redo stack together never hold more than
\* maxSize snapshots; so whenever undo() has a snapshot to pop, the redo stack
\* has room for the one it pushes and drops none.
C39_StacksTogetherBounded ==
    /\ Len(undoStack) + Len(redoStack) <= maxSize
    /\ canUndo(M) => Len(Append(redoStack, createSnapshot(M))) <= maxSize

\* every snapshot of a full history has been undone: the redo stack is full
C39_Witness ==
    /\ lastOp = "KeyCtrlZ"
    /\ Len(redoStack) = maxSize
    /\ undoStack = <<>>

\* C40: in every state of the manager, results and calculating have the same
\* length, every handle in running belongs to a line of the manager and has
\* not been called, and a line has a handle exactly when its flag is set.
C40_HandleIffCalculating ==
    /\ Len(cm.results) = Len(cm.calculating)
    /\ \A i \in DOMAIN cm.running :
          /\ 0 <= i /\ i < Len(cm.calculating)
          /\ cm.contexts[cm.running[i]] # "canceled"
    /\ \A i \in 0..(Len(cm.calculating) - 1) :
          (i \in DOMAIN cm.running) <=> At(cm.calculating, i)

\* one line has a handle and its flag set while the handle of another line,
\* whose evaluation is still in flight, has been called and removed
C40_Witness ==
    /\ \E i \in DOMAIN cm.running : At(cm.calculating, i)
    /\ \E k \in 1..Len(evals) :
          /\ cm.contexts[evals[k].ctx] = "canceled"
          /\ evals[k].Index < Len(cm.calculating)
          /\ evals[k].Index \notin DOMAIN cm.running
          /\ ~At(cm.calculating, evals[k].Index)

====
